---- MODULE Spec2Model ----
(***************************************************************************)
(* VimeoGrab GUI: the foreground (Tk event loop) thread, the background    *)
(* worker threads it starts, the root.after callback queue and the yt-dlp  *)
(* subprocesses.                                                           *)
(*                                                                         *)
(* Spec       models src/VimeoGrabber_GUI_v.1.1.2.py (VimeoGrabGUI) on     *)
(*            one machine, with every user action.                         *)
(* SpecFetch  is the same program when the user only fetches video         *)
(*            information, on every machine (cookie file present or not,   *)
(*            any set of detected browsers).                               *)
(* SpecInstaller   models DependencyInstallerUI: the install worker, its   *)
(*            download loops and the Cancel button.                        *)
(* SpecHeuristics  applies the output heuristics to texts written out      *)
(*            character by character.                                      *)
(* SpecTail   feeds output lines to the 200-line deque and formats its     *)
(*            last 30 lines for the retry decision and the error box.      *)
(* SpecFetchLive   is SpecFetch with fair scheduling of the fetch thread.  *)
(* SpecSelection   builds the quality dropdown and the --format argument.  *)
(* SpecProgress    runs the output loop of one run_once and the progress   *)
(*            callbacks it queues.                                         *)
(* SpecLegacy      models VimeoGrabGUI of src/vimeograb_gui.py             *)
(*            (download_in_progress, ui_state); SpecLegacyLive adds fair   *)
(*            scheduling.                                                  *)
(*                                                                         *)
(* Atomicity.  A foreground handler runs to completion in one action (Tk   *)
(* runs one callback at a time; a messagebox is shown and dismissed inside *)
(* the handler).  A worker action is one blocking call of the worker (a    *)
(* subprocess run to completion, the start of a subprocess, the end of its *)
(* output) together with the non-blocking code around it.                  *)
(*                                                                         *)
(* Text.  A captured output text is modelled by the set of indicator       *)
(* substrings its lower-cased form contains; the heuristics are computed   *)
(* on that set exactly as the code's `in` tests are.  SpecHeuristics       *)
(* computes that set from the characters of the text.                      *)
(***************************************************************************)
EXTENDS Integers, Sequences, FiniteSets, TLC

\* ------------------------------------------------------------------ bounds
\* Number of fetch workers and of download workers the user may start in
\* one run.
MaxFetches == 2

MaxDownloads == 2

\* ------------------------------------------------------- program constants
NoCheck == <<"--no-check-certificate">>

Preferred == <<"chrome", "edge", "firefox">>

Browsers == {"chrome", "edge", "firefox"}

Urls == {"https://vimeo.com/1"}

\* Exit code of a subprocess ended by Popen.terminate() (TerminateProcess
\* with exit code 1 on Windows, the platform the program is built for).
Killed == 1

\* Output texts the external tool may print (as sets of indicator
\* substrings of the lower-cased text).
Outputs ==
  { {},
    {"ssl:"},
    {"login", "vimeo"},
    {"could not copy chrome cookie database"} }

\* The machines explored by Spec: the cookie file exists or not, and the
\* browsers whose profile directory exists.  SpecFetch explores every machine.
Machines == { [cookie_file |-> FALSE, installed |-> {"edge"}] }

AllMachines == [cookie_file : BOOLEAN, installed : SUBSET Browsers]

\* ------------------------------------------------------------------ state
VARIABLES
  machine,               \* the cookie file and browser profiles of this machine
  recorded,              \* auth and transport arguments of the invocation that
                         \* exited 0 in the fetch whose quality screen was shown
  screen,                \* which screen main_frame shows
  vimeo_url,             \* self.vimeo_url
  ytdlp_auth_args,       \* self.ytdlp_auth_args
  ytdlp_transport_args,  \* self.ytdlp_transport_args
  ytdlp_auth_source,     \* self.ytdlp_auth_source
  available_qualities,   \* self.available_qualities (0: [], w: built by worker w)
  process,               \* self.process (0: None, else index into procs)
  download_thread,       \* self.download_thread (0: None, else worker id)
  afterQueue,            \* callbacks queued with root.after, in order
  dialog,                \* the messagebox shown since the user's last action
  workers,               \* worker threads started so far, by id
  procs,                 \* yt-dlp download subprocesses created so far
  cancelled,             \* workers whose download the user cancelled in flight
  installer,             \* DependencyInstallerUI and its _install_worker thread
  classified,            \* an output text and what the heuristics say of it
  reader,                \* an output stream, its output_tail deque and its report
  selection,             \* the quality dropdown, selected_quality and --format
  progress,              \* the output loop of one run_once and the progress bar
  legacy                 \* VimeoGrabGUI of vimeograb_gui.py

\* The state of VimeoGrabGUI.
app == << machine, recorded, screen, vimeo_url, ytdlp_auth_args, ytdlp_transport_args,
          ytdlp_auth_source, available_qualities, process, download_thread,
          afterQueue, dialog, workers, procs, cancelled >>

\* The state outside VimeoGrabGUI.
other == << installer, classified, reader, selection, progress, legacy >>

vars == << app, other >>

fields == << ytdlp_auth_args, ytdlp_transport_args, ytdlp_auth_source >>

WorkerIds == 1 .. (MaxFetches + MaxDownloads)

NoResult == [rc |-> -1, out |-> {}, json_ok |-> FALSE]

NoDialog == [msg |-> "none", worker |-> 0, login |-> FALSE, chrome |-> FALSE, out |-> {}]

IdleWorker ==
  [ kind |-> "none", pc |-> "idle",
    auth_args |-> <<>>, transport_args |-> <<>>,
    cookies_path |-> "", cands |-> <<>>, idx |-> 0,
    result |-> NoResult,
    login_required |-> FALSE, cookie_copy_failed |-> FALSE,
    invs |-> <<>>, tried |-> <<>>, rd |-> 0, tail |-> {},
    used |-> <<>>, expect |-> <<>>, outcome |-> "none" ]

\* No installer window: every dependency was found at startup.
NoInstaller ==
  [ missing_items |-> <<>>, items |-> <<>>, top |-> "none", pc |-> "absent",
    cancel_event |-> FALSE, success |-> FALSE,
    chunks |-> 0, written |-> 0, ps |-> "none", returncode |-> 0,
    raised |-> "", stopped_at |-> "none", fail_ui |-> "none" ]

NoText == [text |-> <<>>, done |-> FALSE, ssl |-> FALSE, login |-> FALSE]

NoReader ==
  [ fed |-> 0, output_tail |-> <<>>, details |-> <<>>, done |-> FALSE,
    ssl_at |-> 0, rc |-> 0, retry |-> FALSE ]

\* self.selected_quality and the height of an available quality: "best",
\* "worst" or a number of pixels.
Best == [kind |-> "best", h |-> 0]

Worst == [kind |-> "worst", h |-> 0]

Height(h) == [kind |-> "height", h |-> h]

\* self.selected_quality = None
NoQuality == [kind |-> "none", h |-> 0]

NoSelection ==
  [ pc |-> "absent", heights |-> {}, available_qualities |-> <<>>,
    quality_options |-> <<>>, quality_values |-> <<>>, quality_var |-> "",
    selected_quality |-> NoQuality, format |-> "" ]

NoProgress ==
  [ pc |-> "absent", lines |-> 0, line |-> << >>, in_download_phase |-> TRUE,
    after |-> << >>, progress_var |-> 0, mode |-> "determinate",
    running |-> FALSE, status |-> "Preparing download..." ]

NoLegacy ==
  [ pc |-> "absent", screen |-> "url", download_in_progress |-> FALSE,
    ui_state |-> "initial", has_ui |-> FALSE, process |-> 0,
    fetching |-> FALSE, procs |-> << >>, workers |-> << >>, after |-> << >>,
    cancelled |-> {}, dialog |-> "none" ]

InitOther ==
  /\ installer = NoInstaller
  /\ classified = NoText
  /\ reader = NoReader
  /\ selection = NoSelection
  /\ progress = NoProgress
  /\ legacy = NoLegacy

InitApp ==
  /\ recorded = <<>>
  /\ screen = "url"
  /\ vimeo_url = ""
  /\ ytdlp_auth_args = <<>>
  /\ ytdlp_transport_args = <<>>
  /\ ytdlp_auth_source = ""
  /\ available_qualities = 0
  /\ process = 0
  /\ download_thread = 0
  /\ afterQueue = <<>>
  /\ dialog = NoDialog
  /\ workers = [w \in WorkerIds |-> IdleWorker]
  /\ procs = <<>>
  /\ cancelled = {}

Init == machine \in Machines /\ InitApp /\ InitOther

InitFetch == machine \in AllMachines /\ InitApp /\ InitOther

\* ------------------------------------------------------------- heuristics
_is_ssl_related_error(t) ==
  \/ "certificate_verify_failed" \in t
  \/ "unable to get local issuer certificate" \in t
  \/ "sslc" \in t
  \/ ("tls" \in t /\ "handshake" \in t)
  \/ "ssl:" \in t

\* The last test with "or" in place of "and".
_is_vimeo_login_required_error_either(t) ==
  \/ "only works when logged-in" \in t
  \/ "provide account credentials" \in t
  \/ "use --cookies" \in t
  \/ "use --cookies-from-browser" \in t
  \/ "login" \in t
  \/ "vimeo" \in t

_is_vimeo_login_required_error(t) ==
  \/ "only works when logged-in" \in t
  \/ "provide account credentials" \in t
  \/ "use --cookies" \in t
  \/ "use --cookies-from-browser" \in t
  \/ ("login" \in t /\ "vimeo" \in t)

_is_chrome_cookie_copy_error(t) ==
  "could not copy chrome cookie database" \in t

\* [b for b in preferred if b in sources], or preferred when nothing was
\* detected.
RECURSIVE FilterPreferred(_, _)
FilterPreferred(seq, sources) ==
  IF seq = <<>> THEN <<>>
  ELSE IF Head(seq) \in sources
       THEN <<Head(seq)>> \o FilterPreferred(Tail(seq), sources)
       ELSE FilterPreferred(Tail(seq), sources)

_get_browser_cookie_sources(detected) ==
  IF detected # {} THEN FilterPreferred(Preferred, detected) ELSE Preferred

\* get_cookies_path(): the path when the cookie file exists, else None.
get_cookies_path(exists) == IF exists THEN "~/.vimeo_cookies.txt" ELSE ""

BrowserCandidates(bs) ==
  [i \in 1 .. Len(bs) |->
     [args |-> <<"--cookies-from-browser", bs[i]>>, source |-> "browser:" \o bs[i]]]

\* auth_candidates with the cookie file appended after the browsers.
auth_candidates_cookie_last(cookieExists, detected) ==
  LET cookies_path == get_cookies_path(cookieExists)
      last == IF cookies_path # ""
              THEN << [args |-> <<"--cookies", cookies_path>>, source |-> "cookies_file"] >>
              ELSE << >>
  IN  BrowserCandidates(_get_browser_cookie_sources(detected)) \o last

\* auth_candidates with every candidate listed twice.
auth_candidates_twice(cookieExists, detected) ==
  LET cookies_path == get_cookies_path(cookieExists)
      first == IF cookies_path # ""
               THEN << [args |-> <<"--cookies", cookies_path>>, source |-> "cookies_file"] >>
               ELSE << >>
      once == first \o BrowserCandidates(_get_browser_cookie_sources(detected))
  IN  once \o once

\* auth_candidates as built in get_video_information.
auth_candidates(cookieExists, detected) ==
  LET cookies_path == get_cookies_path(cookieExists)
      first == IF cookies_path # ""
               THEN << [args |-> <<"--cookies", cookies_path>>, source |-> "cookies_file"] >>
               ELSE << >>
  IN  first \o BrowserCandidates(_get_browser_cookie_sources(detected))

\* -------------------------------------------------------- worker plumbing
\* The effect of a worker step: the worker's new record, the new values of
\* the fields of self it may write, and the callbacks it posts.
Eff(w) ==
  [ w |-> w, wr |-> workers[w],
    auth |-> ytdlp_auth_args, transport |-> ytdlp_transport_args,
    source |-> ytdlp_auth_source, qual |-> available_qualities,
    posts |-> <<>> ]

Apply(e) ==
  /\ workers' = [workers EXCEPT ![e.w] = e.wr]
  /\ ytdlp_auth_args' = e.auth
  /\ ytdlp_transport_args' = e.transport
  /\ ytdlp_auth_source' = e.source
  /\ available_qualities' = e.qual
  /\ afterQueue' = afterQueue \o e.posts

Callback(fn, w, msg, login, chrome, out) ==
  [fn |-> fn, worker |-> w, msg |-> msg, login |-> login, chrome |-> chrome,
   out |-> out, used |-> <<>>]

Plain(fn, w) == Callback(fn, w, "", FALSE, FALSE, {})

\* What hidden_subprocess(cmd, ...) can return for a --dump-json invocation:
\* exit code 0 with the JSON on stdout (well-formed or not), or a non-zero
\* exit code with one of the output texts.
InfoResults ==
  { [rc |-> 0, out |-> {}, json_ok |-> j] : j \in BOOLEAN }
    \cup { [rc |-> 1, out |-> o, json_ok |-> FALSE] : o \in Outputs }

\* One entry of a worker's invocation log: the arguments of the command
\* line and how the invocation ended.  wr.invs holds the invocations of the
\* worker's current phase (the invocations without authentication, or those
\* of the current candidate); wr.tried lists the candidates the loop is
\* through with, each with the exit code of its last invocation.
Invocation(auth, transport, extra, res, proc) ==
  [ auth |-> auth, transport |-> transport, extra |-> extra,
    rc |-> res.rc, ssl |-> _is_ssl_related_error(res.out), proc |-> proc ]

\* run_info(auth_args, transport_args) returned res.
run_info(e, auth, transport, res) ==
  [e EXCEPT !.wr.invs = Append(@, Invocation(auth, transport, <<>>, res, 0))]

\* except Exception as e: (get_video_information).  The two callbacks are
\* queued while e is still bound; the thread then leaves the handler.  The
\* locals of the try block are not used again.
gvi_except(e) ==
  [e EXCEPT !.wr = [IdleWorker EXCEPT !.kind = e.wr.kind, !.pc = "except",
                                       !.outcome = "exception"],
            !.posts = @ \o << Callback("showerror_exc", e.w,
                                       "Failed to get video information: e",
                                       FALSE, FALSE, {}),
                              Plain("create_url_entry_ui", e.w) >>]

\* Lines 778-835: report the failure of `result`, or parse it and show the
\* quality selection.
gvi_conclude(e, result) ==
  IF result.rc # 0
  THEN [e EXCEPT !.wr.pc = "exit", !.wr.outcome = "failed",
                 !.wr.result = result,
                 !.posts = @ \o << Callback("showerror", e.w,
                                            "Failed to get video information",
                                            e.wr.login_required,
                                            e.wr.cookie_copy_failed,
                                            result.out),
                                   Plain("create_url_entry_ui", e.w) >>]
  ELSE IF ~ result.json_ok
  THEN gvi_except([e EXCEPT !.wr.result = result])
  ELSE [e EXCEPT !.wr.pc = "exit", !.wr.outcome = "success",
                 !.wr.result = result,
                 !.wr.used = << e.wr.invs[Len(e.wr.invs)].auth,
                               e.wr.invs[Len(e.wr.invs)].transport >>,
                 !.qual = e.w,
                 !.posts = @ \o << [Plain("create_quality_selection_ui", e.w) EXCEPT
                                      !.used = << e.wr.invs[Len(e.wr.invs)].auth,
                                                  e.wr.invs[Len(e.wr.invs)].transport >>] >>]

\* Lines 746-753 and the loop header: decide whether login is required and,
\* if so, build auth_candidates from the cookie file and the detected
\* browsers and enter the candidate loop.
gvi_after_transport(e, result) ==
  LET login == result.rc # 0 /\ _is_vimeo_login_required_error(result.out)
      cs == auth_candidates(machine.cookie_file, machine.installed)
  IN  IF login /\ cs # <<>>
      THEN [e EXCEPT !.wr.login_required = TRUE,
                     !.wr.result = result,
                     !.wr.cookies_path = get_cookies_path(machine.cookie_file),
                     !.wr.cands = cs, !.wr.idx = 1,
                     !.wr.pc = "candidate"]
      ELSE gvi_conclude([e EXCEPT !.wr.login_required = login], result)

\* The candidate loop without its break: a successful candidate is recorded
\* and the loop goes on to the next one.
gvi_candidate_done_no_break(e, last_result, transport_args) ==
  LET c == e.wr.cands[e.wr.idx]
      e1 == [e EXCEPT !.wr.tried = Append(@, [source |-> c.source, rc |-> last_result.rc])]
      e2 == IF last_result.rc = 0
            THEN [e1 EXCEPT !.auth = c.args, !.transport = transport_args,
                            !.source = c.source]
            ELSE e1
  IN
  IF e.wr.idx < Len(e.wr.cands)
  THEN [e2 EXCEPT !.wr.idx = @ + 1, !.wr.result = last_result, !.wr.pc = "candidate"]
  ELSE gvi_conclude(e2, last_result)

\* Lines 767-776: the outcome of one candidate, after its retry if any.
gvi_candidate_done(e, last_result, transport_args) ==
  LET c == e.wr.cands[e.wr.idx]
      e1 == [e EXCEPT !.wr.tried = Append(@, [source |-> c.source, rc |-> last_result.rc])]
  IN
  IF last_result.rc = 0
  THEN gvi_conclude([e1 EXCEPT !.auth = c.args,
                               !.transport = transport_args,
                               !.source = c.source], last_result)
  ELSE IF e.wr.idx < Len(e.wr.cands)
  THEN [e1 EXCEPT !.wr.idx = @ + 1, !.wr.result = last_result, !.wr.pc = "candidate"]
  ELSE gvi_conclude(e1, last_result)

\* The first invocation retried after any failure, SSL-related or not.
ssl_retry_needed_any_failure(res) == res.rc # 0

\* Line 741: the first invocation is retried with the transport override.
ssl_retry_needed(res) == res.rc # 0 /\ _is_ssl_related_error(res.out)

\* The override kept whatever the retry's exit code.
persist_override_always(e, res) == [e EXCEPT !.transport = NoCheck]

\* Lines 743-744: the override is kept when the retry succeeded.
persist_override(e, res) ==
  IF res.rc = 0 THEN [e EXCEPT !.transport = NoCheck] ELSE e

\* The candidate retried after any failure, SSL-related or not.
candidate_retry_needed_any_failure(res, transport_args) ==
  res.rc # 0 /\ transport_args = <<>>

\* Line 763: the candidate is retried with the transport override.
candidate_retry_needed(res, transport_args) ==
  res.rc # 0 /\ transport_args = <<>> /\ _is_ssl_related_error(res.out)

\* A worker that has queued its final callback outside an except block has
\* nothing left to do but return: it returns before any other thread takes a
\* step.
Returning == \E w \in WorkerIds : workers[w].pc = "exit"

\* ------------------------------------------- get_video_information (worker)
\* Lines 733-735.
gvi_reset(w) ==
  /\ ~ Returning
  /\ workers[w].kind = "fetch" /\ workers[w].pc = "start"
  /\ Apply([Eff(w) EXCEPT !.auth = <<>>, !.transport = <<>>, !.source = "",
                          !.wr.pc = "first"])
  /\ UNCHANGED << other, machine, recorded, screen, vimeo_url, process, download_thread, dialog, procs, cancelled >>

\* Line 739 (and 741, 746-753): the first invocation, no auth, no transport.
gvi_first(w) ==
  /\ ~ Returning
  /\ workers[w].kind = "fetch" /\ workers[w].pc = "first"
  /\ \/ Apply(gvi_except(Eff(w)))
     \/ \E res \in InfoResults :
          LET e == run_info(Eff(w), <<>>, <<>>, res) IN
          IF ssl_retry_needed(res)
          THEN Apply([e EXCEPT !.wr.pc = "ssl_retry", !.wr.result = res])
          ELSE Apply(gvi_after_transport(e, res))
  /\ UNCHANGED << other, machine, recorded, screen, vimeo_url, process, download_thread, dialog, procs, cancelled >>

\* Lines 742-744 (and 746-753): the retry with the transport override.
gvi_ssl_retry(w) ==
  /\ ~ Returning
  /\ workers[w].kind = "fetch" /\ workers[w].pc = "ssl_retry"
  /\ \/ Apply(gvi_except(Eff(w)))
     \/ \E res \in InfoResults :
          LET e == run_info(Eff(w), <<>>, NoCheck, res)
          IN  Apply(gvi_after_transport(persist_override(e, res), res))
  /\ UNCHANGED << other, machine, recorded, screen, vimeo_url, process, download_thread, dialog, procs, cancelled >>

\* Lines 756-763 (and 767-776): one candidate's first invocation.
gvi_candidate(w) ==
  /\ ~ Returning
  /\ workers[w].kind = "fetch" /\ workers[w].pc = "candidate"
  /\ \/ Apply(gvi_except(Eff(w)))
     \/ \E res \in InfoResults :
          LET c == workers[w].cands[workers[w].idx]
              transport_args == ytdlp_transport_args
              e0 == run_info([Eff(w) EXCEPT !.wr.invs = <<>>], c.args, transport_args, res)
              e  == IF _is_chrome_cookie_copy_error(res.out)
                    THEN [e0 EXCEPT !.wr.cookie_copy_failed = TRUE] ELSE e0
          IN  IF candidate_retry_needed(res, transport_args)
              THEN Apply([e EXCEPT !.wr.pc = "candidate_retry", !.wr.result = res])
              ELSE Apply(gvi_candidate_done(e, res, transport_args))
  /\ UNCHANGED << other, machine, recorded, screen, vimeo_url, process, download_thread, dialog, procs, cancelled >>

\* Lines 764-765 (and 767-776): the same candidate with the override added.
gvi_candidate_retry(w) ==
  /\ ~ Returning
  /\ workers[w].kind = "fetch" /\ workers[w].pc = "candidate_retry"
  /\ \/ Apply(gvi_except(Eff(w)))
     \/ \E res \in InfoResults :
          LET c == workers[w].cands[workers[w].idx]
              e == run_info(Eff(w), c.args, NoCheck, res)
          IN  Apply(gvi_candidate_done(e, res, NoCheck))
  /\ UNCHANGED << other, machine, recorded, screen, vimeo_url, process, download_thread, dialog, procs, cancelled >>

\* The worker's target function returns (or leaves its except block, which
\* unbinds e) and the thread ends; its locals are gone.
thread_exit(w) ==
  /\ \/ workers[w].pc = "exit"
     \/ workers[w].pc = "except" /\ ~ Returning
  /\ workers' = [workers EXCEPT ![w] =
        [IdleWorker EXCEPT !.kind = workers[w].kind, !.pc = "done"]]
  /\ UNCHANGED << other, machine, recorded, screen, vimeo_url, ytdlp_auth_args, ytdlp_transport_args,
                  ytdlp_auth_source, available_qualities, process,
                  download_thread, afterQueue, dialog, procs, cancelled >>

\* ------------------------------------------------------------ subprocesses
\* How a yt-dlp download can end on its own: exit code 0 (what it printed is
\* then never looked at), or a non-zero exit code with one of the output
\* texts in the retained tail.
DownloadResults ==
  { [rc |-> 0, out |-> {}] } \cup { [rc |-> 1, out |-> o] : o \in Outputs }

\* A running yt-dlp download ends on its own.
proc_exit(p) ==
  /\ ~ Returning
  /\ p \in DOMAIN procs /\ procs[p].state = "running"
  /\ \E res \in DownloadResults :
       procs' = [procs EXCEPT ![p] = [@ EXCEPT !.state = "exited", !.rc = res.rc,
                                                !.out = res.out]]
  /\ UNCHANGED << other, machine, recorded, screen, vimeo_url, ytdlp_auth_args, ytdlp_transport_args,
                  ytdlp_auth_source, available_qualities, process,
                  download_thread, afterQueue, dialog, workers, cancelled >>

\* Popen.terminate(): a running process ends with the kill exit code, with
\* whatever it had printed; an ended one is left alone.
terminate(ps, p, out) ==
  IF p \in DOMAIN ps /\ ps[p].state = "running"
  THEN [ps EXCEPT ![p] = [@ EXCEPT !.state = "exited", !.rc = Killed, !.out = out]]
  ELSE ps

\* _format_recent_lines(output_tail): the text of the retained lines.
_format_recent_lines(tail) == tail

\* ------------------------------------------------- download_video (worker)
\* except Exception as e: (download_video).
dv_except(e) ==
  [e EXCEPT !.wr = [IdleWorker EXCEPT !.kind = e.wr.kind, !.pc = "except",
                                       !.outcome = "exception"],
            !.posts = @ \o << Callback("showerror_exc", e.w,
                                       "Error during download: e",
                                       FALSE, FALSE, {}),
                              Plain("create_url_entry_ui", e.w) >>]

\* The subprocess started by run_once: cmd carries auth_args and
\* transport_args, then extra_args.
Popen(w, auth_args, transport_args, extra_args) ==
  LET p == Len(procs) + 1 IN
  /\ procs' = Append(procs, [owner |-> w, state |-> "running", rc |-> -1, out |-> {}])
  /\ process' = p
  /\ Apply([Eff(w) EXCEPT
       !.wr.auth_args = auth_args,
       !.wr.transport_args = transport_args,
       !.wr.invs = Append(@, [auth |-> auth_args, transport |-> transport_args,
                              extra |-> extra_args, rc |-> -1, ssl |-> FALSE,
                              proc |-> p]),
       !.wr.rd = p, !.wr.pc = "reading"])

\* Lines 1153-1220: the thread starts running download_video: it copies the
\* auth and transport arguments from self and makes the first call of
\* run_once, which builds the command line, starts the subprocess, stores it
\* in self.process and starts reading its output.
dv_start(w) ==
  /\ ~ Returning
  /\ workers[w].kind = "download" /\ workers[w].pc = "start"
  /\ \/ /\ Apply(dv_except(Eff(w)))
        /\ UNCHANGED << process, procs >>
     \/ Popen(w, ytdlp_auth_args, ytdlp_transport_args, <<>>)
  /\ UNCHANGED << other, machine, recorded, screen, vimeo_url, download_thread, dialog, cancelled >>

\* Line 1280 (run_once, lines 1163-1220): the second call of run_once, with
\* the transport override as extra_args.
dv_retry(w) ==
  /\ ~ Returning
  /\ workers[w].kind = "download" /\ workers[w].pc = "retry"
  /\ \/ /\ Apply(dv_except(Eff(w)))
        /\ UNCHANGED << process, procs >>
     \/ Popen(w, workers[w].auth_args, workers[w].transport_args, NoCheck)
  /\ UNCHANGED << other, machine, recorded, screen, vimeo_url, download_thread, dialog, cancelled >>

\* Lines 1282-1291: report the result of the last run_once.
dv_conclude(e, rc, output_tail) ==
  IF rc = 0
  THEN [e EXCEPT !.wr.pc = "exit", !.wr.outcome = "success",
                 !.posts = @ \o << Plain("show_completion", e.w) >>]
  ELSE [e EXCEPT !.wr.pc = "exit", !.wr.outcome = "failed",
                 !.posts = @ \o << Callback("showerror", e.w,
                                            "Failed to download the video",
                                            FALSE, FALSE,
                                            _format_recent_lines(output_tail)),
                                   Plain("create_url_entry_ui", e.w) >>]

\* Lines 1274-1291: self.process has ended; take its return code, then retry
\* once on an SSL failure or report.
dv_returned(e) ==
  LET rc == procs[process].rc
      output_tail == e.wr.tail
      e2 == [e EXCEPT !.wr.result = [rc |-> rc, out |-> output_tail, json_ok |-> FALSE],
                      !.wr.invs[Len(e.wr.invs)].rc = rc]
  IN  IF Len(e.wr.invs) = 1 /\ rc # 0
         /\ _is_ssl_related_error(_format_recent_lines(output_tail))
      THEN [e2 EXCEPT !.wr.pc = "retry"]
      ELSE dv_conclude(e2, rc, output_tail)

\* run_once, lines 1220-1275: the loop over the subprocess's output ends when
\* the subprocess it reads from has ended; output_tail is complete.  Then
\* self.process.wait(): if self.process has ended too, the worker goes on.
dv_eof(w) ==
  /\ ~ Returning
  /\ workers[w].kind = "download" /\ workers[w].pc = "reading"
  /\ procs[workers[w].rd].state = "exited"
  /\ LET out == procs[workers[w].rd].out
         e == [Eff(w) EXCEPT
                 !.wr.tail = out,
                 !.wr.invs[Len(workers[w].invs)].ssl =
                    _is_ssl_related_error(_format_recent_lines(out))]
     IN  IF procs[process].state = "exited"
         THEN Apply(dv_returned(e))
         ELSE Apply([e EXCEPT !.wr.pc = "wait"])
  /\ procs' = [procs EXCEPT ![workers[w].rd].out = {}]
  /\ UNCHANGED << other, machine, recorded, screen, vimeo_url, process, download_thread,
                  dialog, cancelled >>

\* run_once, line 1274: self.process.wait() returns.
dv_wait(w) ==
  /\ ~ Returning
  /\ workers[w].kind = "download" /\ workers[w].pc = "wait"
  /\ procs[process].state = "exited"
  /\ Apply(dv_returned(Eff(w)))
  /\ UNCHANGED << other, machine, recorded, screen, vimeo_url, process, download_thread,
                  dialog, procs, cancelled >>

\* ------------------------------------------------------ foreground thread
\* Workers are numbered in the order the foreground thread starts them.
Started == {w \in WorkerIds : workers[w].kind # "none"}

NextWorker == Cardinality(Started) + 1

Count(kind) == Cardinality({w \in WorkerIds : workers[w].kind = kind})

\* The worker still has work of its operation to do (it has not yet queued
\* its final callback).
Alive(w) == workers[w].pc \notin {"idle", "done", "exit", "except"}

MessageBox(msg, w) == [msg |-> msg, worker |-> w, login |-> FALSE, chrome |-> FALSE, out |-> {}]

\* "Get Video Information": an empty or non-Vimeo URL is rejected with an
\* error box; otherwise the loading screen is shown and a worker is started
\* on get_video_information.
process_url ==
  /\ ~ Returning
  /\ screen = "url"
  /\ \/ /\ dialog' = MessageBox("Invalid Vimeo URL", 0)
        /\ UNCHANGED << screen, vimeo_url, workers >>
     \/ /\ Count("fetch") < MaxFetches
        /\ \E url \in Urls : vimeo_url' = url
        /\ screen' = "loading"
        /\ workers' = [workers EXCEPT ![NextWorker] =
                         [IdleWorker EXCEPT !.kind = "fetch", !.pc = "start"]]
        /\ dialog' = NoDialog
  /\ UNCHANGED << other, machine, recorded, ytdlp_auth_args, ytdlp_transport_args, ytdlp_auth_source,
                  available_qualities, process, download_thread, afterQueue,
                  procs, cancelled >>

\* The "Back" button of the quality selection screen and the "Download
\* Another Video" button of the completion screen: create_url_entry_ui.
create_url_entry_ui ==
  /\ ~ Returning
  /\ screen \in {"quality", "complete"}
  /\ screen' = "url"
  /\ dialog' = NoDialog
  /\ UNCHANGED << other, machine, recorded, vimeo_url, ytdlp_auth_args, ytdlp_transport_args,
                  ytdlp_auth_source, available_qualities, process,
                  download_thread, afterQueue, workers, procs, cancelled >>

\* "Download Video": with an invalid custom directory an error box is shown
\* and nothing starts; otherwise the progress screen is shown and a worker
\* is started on download_video.
start_download ==
  /\ ~ Returning
  /\ screen = "quality"
  /\ \/ /\ dialog' = MessageBox("Invalid download directory.", 0)
        /\ UNCHANGED << screen, download_thread, workers >>
     \/ /\ Count("download") < MaxDownloads
        /\ screen' = "progress"
        /\ download_thread' = NextWorker
        /\ workers' = [workers EXCEPT ![NextWorker] =
                         [IdleWorker EXCEPT !.kind = "download", !.pc = "start",
                                            !.expect = recorded]]
        /\ dialog' = NoDialog
  /\ UNCHANGED << other, machine, recorded, vimeo_url, ytdlp_auth_args, ytdlp_transport_args,
                  ytdlp_auth_source, available_qualities, process, afterQueue,
                  procs, cancelled >>

\* "Cancel": terminate self.process if there is one, tell the user, show the
\* URL entry screen.
cancel_download ==
  /\ ~ Returning
  /\ screen = "progress"
  /\ \E out \in Outputs :
       procs' = IF process # 0 THEN terminate(procs, process, out) ELSE procs
  /\ dialog' = MessageBox("Download was cancelled", download_thread)
  /\ screen' = "url"
  /\ cancelled' = IF Alive(download_thread)
                  THEN cancelled \cup {download_thread} ELSE cancelled
  /\ UNCHANGED << other, machine, recorded, vimeo_url, ytdlp_auth_args, ytdlp_transport_args,
                  ytdlp_auth_source, available_qualities, process,
                  download_thread, afterQueue, workers >>

\* The Tk event loop runs the oldest callback queued with root.after.  The
\* error lambda of an except block reads e, which is unbound once the worker
\* has left the block: the lambda then raises NameError and shows nothing.
mainloop ==
  /\ ~ Returning
  /\ afterQueue # <<>>
  /\ LET cb == Head(afterQueue) IN
       /\ afterQueue' = Tail(afterQueue)
       /\ screen' = CASE cb.fn = "create_url_entry_ui" -> "url"
                      [] cb.fn = "create_quality_selection_ui" -> "quality"
                      [] cb.fn = "show_completion" -> "complete"
                      [] OTHER -> screen
       /\ dialog' = CASE cb.fn = "showerror" ->
                           [msg |-> cb.msg, worker |-> cb.worker, login |-> cb.login,
                            chrome |-> cb.chrome, out |-> cb.out]
                      [] cb.fn = "showerror_exc" /\ workers[cb.worker].pc = "except" ->
                           MessageBox(cb.msg, cb.worker)
                      [] OTHER -> dialog
       /\ recorded' = IF cb.fn = "create_quality_selection_ui" THEN cb.used ELSE recorded
  /\ UNCHANGED << other, machine, vimeo_url, ytdlp_auth_args, ytdlp_transport_args,
                  ytdlp_auth_source, available_qualities, process,
                  download_thread, workers, procs, cancelled >>

\* ------------------------------------------------------------ specification
Next ==
  \/ process_url
  \/ create_url_entry_ui
  \/ start_download
  \/ cancel_download
  \/ mainloop
  \/ \E w \in WorkerIds : gvi_reset(w)
  \/ \E w \in WorkerIds : gvi_first(w)
  \/ \E w \in WorkerIds : gvi_ssl_retry(w)
  \/ \E w \in WorkerIds : gvi_candidate(w)
  \/ \E w \in WorkerIds : gvi_candidate_retry(w)
  \/ \E w \in WorkerIds : dv_start(w)
  \/ \E w \in WorkerIds : dv_retry(w)
  \/ \E w \in WorkerIds : dv_eof(w)
  \/ \E w \in WorkerIds : dv_wait(w)
  \/ \E w \in WorkerIds : thread_exit(w)
  \/ \E p \in DOMAIN procs : proc_exit(p)

Spec == Init /\ [][Next]_vars

\* The application when the user only fetches video information (and goes
\* back), on every machine.
NextFetch ==
  \/ process_url
  \/ create_url_entry_ui
  \/ mainloop
  \/ \E w \in WorkerIds : gvi_reset(w)
  \/ \E w \in WorkerIds : gvi_first(w)
  \/ \E w \in WorkerIds : gvi_ssl_retry(w)
  \/ \E w \in WorkerIds : gvi_candidate(w)
  \/ \E w \in WorkerIds : gvi_candidate_retry(w)
  \/ \E w \in WorkerIds : thread_exit(w)

SpecFetch == InitFetch /\ [][NextFetch]_vars

\* A step of a thread running get_video_information.
FetchWorkerStep ==
  \E w \in WorkerIds :
    \/ gvi_reset(w) \/ gvi_first(w) \/ gvi_ssl_retry(w)
    \/ gvi_candidate(w) \/ gvi_candidate_retry(w) \/ thread_exit(w)

\* SpecFetch with threads that are scheduled and a tool that exits: a worker
\* that can take a step eventually takes one.
SpecFetchLive == SpecFetch /\ WF_vars(FetchWorkerStep)

\* ------------------------------------------- DependencyInstallerUI
\* Size of a response body, in chunks of 256 KiB.
MaxChunks == 2

\* What ensure_runtime_dependencies can find missing.
MissingItems == { <<"yt-dlp">>, <<"ffmpeg">>, <<"yt-dlp", "ffmpeg">> }

InitInstaller ==
  /\ machine \in Machines
  /\ InitApp
  /\ \E m \in MissingItems :
       installer = [NoInstaller EXCEPT !.missing_items = m, !.items = m,
                                       !.top = "open", !.pc = "idle"]
  /\ classified = NoText
  /\ reader = NoReader
  /\ selection = NoSelection
  /\ progress = NoProgress
  /\ legacy = NoLegacy

\* _install_worker, lines 497-511: a "cancelled" error ends the worker
\* silently; any other error queues _fail_ui.
install_except(i, msg) ==
  IF msg = "cancelled"
  THEN [i EXCEPT !.pc = "done", !.raised = msg]
  ELSE [i EXCEPT !.pc = "except", !.raised = msg, !.fail_ui = "queued"]

\* The poll loop raising "cancelled" without terminating the subprocess.
poll_cancelled_no_terminate(i) ==
  install_except([i EXCEPT !.stopped_at = "poll"], "cancelled")

\* The poll loop of _download_file_powershell sees the flag while the
\* subprocess runs (lines 253-258): terminate it and raise "cancelled".
poll_cancelled(i) ==
  install_except([i EXCEPT !.ps = "terminated", !.returncode = Killed,
                           !.stopped_at = "poll"], "cancelled")

\* The read loop of _download_file sees the flag (lines 287-288): raise
\* "cancelled" before reading; the handler at 298-304 raises it again.
read_cancelled(i) ==
  install_except([i EXCEPT !.stopped_at = "read"], "cancelled")

\* _install_ytdlp_windows / _install_ffmpeg_windows after _download_file
\* returned: the file is moved into place, the ffmpeg archive is unpacked
\* (which fails when it holds no ffmpeg.exe); then the next item.
item_installed(i, unpacked) ==
  IF Head(i.items) = "ffmpeg" /\ ~ unpacked
  THEN install_except(i, "ffmpeg.exe not found in archive")
  ELSE [i EXCEPT !.items = Tail(@), !.pc = "item", !.ps = "none",
                 !.chunks = 0, !.written = 0]

\* The "Install" button: start _install_worker.  The button is enabled
\* before the first run and again once _fail_ui has run.
_on_install ==
  /\ installer.top = "open"
  /\ \/ installer.pc = "idle"
     \/ installer.pc = "done" /\ installer.fail_ui \in {"shown", "suppressed"}
  /\ installer' = [installer EXCEPT !.pc = "item", !.items = installer.missing_items,
                                    !.raised = "", !.stopped_at = "none",
                                    !.fail_ui = "none", !.ps = "none",
                                    !.chunks = 0, !.written = 0]
  /\ UNCHANGED << app, classified, reader, selection, progress, legacy >>

\* The "Cancel" button: set the flag, close the window.
_on_cancel ==
  /\ installer.top = "open"
  /\ installer' = [installer EXCEPT !.cancel_event = TRUE, !.success = FALSE,
                                    !.top = "destroyed"]
  /\ UNCHANGED << app, classified, reader, selection, progress, legacy >>

\* _install_worker, lines 480-495, and the start of _download_file, lines
\* 278-285: the head of the loop over missing_items checks the flag, then
\* opens the URL; a certificate failure falls back to
\* _download_file_powershell, which starts its subprocess.
install_item ==
  /\ installer.pc = "item"
  /\ \/ /\ installer.items = <<>>
        /\ installer' = [installer EXCEPT !.pc = "done", !.success = TRUE,
                                          !.top = "destroyed"]
     \/ /\ installer.items # <<>> /\ installer.cancel_event
        /\ installer' = install_except([installer EXCEPT !.stopped_at = "item"],
                                       "cancelled")
     \/ /\ installer.items # <<>> /\ ~ installer.cancel_event
        /\ \/ \E n \in 0 .. MaxChunks :
                installer' = [installer EXCEPT !.pc = "read", !.chunks = n,
                                               !.written = 0]
           \/ installer' = [installer EXCEPT !.pc = "poll", !.ps = "running"]
           \/ installer' = install_except(installer, "urlopen failed")
  /\ UNCHANGED << app, classified, reader, selection, progress, legacy >>

\* One round of the chunked read loop, lines 286-295.
install_read ==
  /\ installer.pc = "read"
  /\ IF installer.cancel_event
     THEN installer' = read_cancelled(installer)
     ELSE \/ /\ installer.chunks = 0
             /\ \E unpacked \in BOOLEAN :
                  installer' = item_installed(installer, unpacked)
          \/ /\ installer.chunks > 0
             /\ installer' = [installer EXCEPT !.chunks = @ - 1, !.written = @ + 1]
          \/ installer' = install_except(installer, "read failed")
  /\ UNCHANGED << app, classified, reader, selection, progress, legacy >>

\* The poll loop, lines 252-275: while the subprocess runs, a set flag ends
\* the loop (an unset one lets it sleep on); once the subprocess has ended
\* its exit code decides.
install_poll ==
  /\ installer.pc = "poll"
  /\ \/ /\ installer.ps = "running" /\ installer.cancel_event
        /\ installer' = poll_cancelled(installer)
     \/ /\ installer.ps = "exited"
        /\ IF installer.returncode # 0
           THEN installer' = install_except(installer, "powershell_download_failed")
           ELSE \E unpacked \in BOOLEAN :
                  installer' = item_installed(installer, unpacked)
  /\ UNCHANGED << app, classified, reader, selection, progress, legacy >>

\* The powershell subprocess ends on its own.
powershell_exit ==
  /\ installer.ps = "running"
  /\ \E rc \in {0, 1} : installer' = [installer EXCEPT !.ps = "exited", !.returncode = rc]
  /\ UNCHANGED << app, classified, reader, selection, progress, legacy >>

\* The event loop runs _fail_ui (lines 499-510): the error box needs e, which
\* is unbound once the worker has left its handler, and the window; each
\* failure is swallowed by its try block.
_fail_ui ==
  /\ installer.fail_ui = "queued"
  /\ installer' = [installer EXCEPT !.fail_ui =
        IF installer.pc = "except" /\ installer.top = "open"
        THEN "shown" ELSE "suppressed"]
  /\ UNCHANGED << app, classified, reader, selection, progress, legacy >>

\* _install_worker leaves its handler and the thread ends.
install_thread_exit ==
  /\ installer.pc = "except"
  /\ installer' = [installer EXCEPT !.pc = "done"]
  /\ UNCHANGED << app, classified, reader, selection, progress, legacy >>

NextInstaller ==
  \/ _on_install
  \/ _on_cancel
  \/ install_item
  \/ install_read
  \/ install_poll
  \/ powershell_exit
  \/ _fail_ui
  \/ install_thread_exit

SpecInstaller == InitInstaller /\ [][NextInstaller]_vars

\* ------------------------------------------------------- output texts
\* A text is a sequence of characters.  str.lower() on the letters A-Z.
ToLower ==
  ("A" :> "a") @@ ("B" :> "b") @@ ("C" :> "c") @@ ("D" :> "d") @@
  ("E" :> "e") @@ ("F" :> "f") @@ ("G" :> "g") @@ ("H" :> "h") @@
  ("I" :> "i") @@ ("J" :> "j") @@ ("K" :> "k") @@ ("L" :> "l") @@
  ("M" :> "m") @@ ("N" :> "n") @@ ("O" :> "o") @@ ("P" :> "p") @@
  ("Q" :> "q") @@ ("R" :> "r") @@ ("S" :> "s") @@ ("T" :> "t") @@
  ("U" :> "u") @@ ("V" :> "v") @@ ("W" :> "w") @@ ("X" :> "x") @@
  ("Y" :> "y") @@ ("Z" :> "z")

lower_char(c) == IF c \in DOMAIN ToLower THEN ToLower[c] ELSE c

upper_char(c) ==
  IF \E u \in DOMAIN ToLower : ToLower[u] = c
  THEN CHOOSE u \in DOMAIN ToLower : ToLower[u] = c
  ELSE c

\* text.lower() left out.
lower_identity(text) == text

\* (text or "").lower()
lower(text) == [i \in 1 .. Len(text) |-> lower_char(text[i])]

\* word in t
Contains(t, word) ==
  \E i \in 0 .. (Len(t) - Len(word)) : SubSeq(t, i + 1, i + Len(word)) = word

\* The characters of the substrings the heuristics look for.
Chars ==
  ("certificate_verify_failed" :>
     << "c", "e", "r", "t", "i", "f", "i", "c", "a", "t", "e", "_", "v", "e",
     "r", "i", "f", "y", "_", "f", "a", "i", "l", "e", "d" >>) @@
  ("unable to get local issuer certificate" :>
     << "u", "n", "a", "b", "l", "e", " ", "t", "o", " ", "g", "e", "t", " ",
     "l", "o", "c", "a", "l", " ", "i", "s", "s", "u", "e", "r", " ", "c",
     "e", "r", "t", "i", "f", "i", "c", "a", "t", "e" >>) @@
  ("sslc" :>
     << "s", "s", "l", "c" >>) @@
  ("tls" :>
     << "t", "l", "s" >>) @@
  ("handshake" :>
     << "h", "a", "n", "d", "s", "h", "a", "k", "e" >>) @@
  ("ssl:" :>
     << "s", "s", "l", ":" >>) @@
  ("only works when logged-in" :>
     << "o", "n", "l", "y", " ", "w", "o", "r", "k", "s", " ", "w", "h", "e",
     "n", " ", "l", "o", "g", "g", "e", "d", "-", "i", "n" >>) @@
  ("provide account credentials" :>
     << "p", "r", "o", "v", "i", "d", "e", " ", "a", "c", "c", "o", "u", "n",
     "t", " ", "c", "r", "e", "d", "e", "n", "t", "i", "a", "l", "s" >>) @@
  ("use --cookies" :>
     << "u", "s", "e", " ", "-", "-", "c", "o", "o", "k", "i", "e", "s" >>) @@
  ("use --cookies-from-browser" :>
     << "u", "s", "e", " ", "-", "-", "c", "o", "o", "k", "i", "e", "s", "-",
     "f", "r", "o", "m", "-", "b", "r", "o", "w", "s", "e", "r" >>) @@
  ("login" :>
     << "l", "o", "g", "i", "n" >>) @@
  ("vimeo" :>
     << "v", "i", "m", "e", "o" >>) @@
  ("could not copy chrome cookie database" :>
     << "c", "o", "u", "l", "d", " ", "n", "o", "t", " ", "c", "o", "p", "y",
     " ", "c", "h", "r", "o", "m", "e", " ", "c", "o", "o", "k", "i", "e",
     " ", "d", "a", "t", "a", "b", "a", "s", "e" >>)

\* The indicator substrings found in the lower-cased text: the set the
\* heuristics are computed on.
Indicators(text) == {k \in DOMAIN Chars : Contains(lower(text), Chars[k])}

\* Number of letters of "certificate_verify_failed" written in the other
\* case than the rest.
MaxFlips == 2

Cased(word, U) ==
  [i \in 1 .. Len(word) |-> IF i \in U THEN upper_char(word[i]) ELSE word[i]]

RECURSIVE Flips(_, _)
Flips(n, k) ==
  IF k = 0 THEN {{}}
  ELSE Flips(n, k - 1) \cup {S \cup {i} : S \in Flips(n, k - 1), i \in 1 .. n}

CaseMasks(n) ==
  LET few == Flips(n, MaxFlips) IN few \cup {(1 .. n) \ S : S \in few}

Fillers ==
  { << >>,
    << "E", "R", "R", "O", "R", ":", " " >>,
    << " ", "t", "o", " " >> }

\* Texts around "certificate_verify_failed" in mixed case, texts with
\* "login" and "vimeo" in every mix of case and both orders, and texts with
\* only one of the two.
SslTexts ==
  { pre \o Cased(Chars["certificate_verify_failed"], U) \o post :
      pre \in Fillers, post \in Fillers, U \in CaseMasks(25) }

LoginTexts ==
  LET l == {Cased(Chars["login"], U) : U \in SUBSET (1 .. 5)}
      v == {Cased(Chars["vimeo"], U) : U \in SUBSET (1 .. 5)}
  IN  UNION { {a \o mid \o b, b \o mid \o a} : a \in l, b \in v, mid \in Fillers }

OneWordTexts ==
  { pre \o Cased(Chars[w], U) \o post :
      w \in {"login", "vimeo"}, U \in SUBSET (1 .. 5),
      pre \in Fillers, post \in Fillers }

\* Texts with the other SSL indicators, with one of "tls" and "handshake",
\* and with none.
SslOtherTexts ==
  { << "T", "L", "S", " ", "h", "a", "n", "d", "s", "h", "a", "k", "e", " ",
       "t", "i", "m", "e", "o", "u", "t" >>,
    << "H", "a", "n", "d", "s", "h", "a", "k", "e", " ", "f", "a", "i", "l",
       "e", "d", " ", "(", "t", "l", "s", ")" >>,
    << "t", "l", "s", " ", "a", "l", "e", "r", "t" >>,
    << "h", "a", "n", "d", "s", "h", "a", "k", "e", " ", "r", "e", "f", "u",
       "s", "e", "d" >>,
    << "S", "S", "L", "C", "o", "n", "t", "e", "x", "t", " ", "w", "r", "a",
       "p", " ", "f", "a", "i", "l", "e", "d" >>,
    << "S", "S", "L", ":", " ", "W", "R", "O", "N", "G", "_", "V", "E", "R",
       "S", "I", "O", "N" >>,
    << "U", "n", "a", "b", "l", "e", " ", "t", "o", " ", "g", "e", "t", " ",
       "l", "o", "c", "a", "l", " ", "i", "s", "s", "u", "e", "r", " ", "c",
       "e", "r", "t", "i", "f", "i", "c", "a", "t", "e" >>,
    << "c", "o", "n", "n", "e", "c", "t", "i", "o", "n", " ", "r", "e", "s",
       "e", "t" >> }

Texts == SslTexts \cup LoginTexts \cup OneWordTexts \cup SslOtherTexts

InitHeuristics ==
  /\ machine \in Machines
  /\ InitApp
  /\ installer = NoInstaller
  /\ reader = NoReader
  /\ selection = NoSelection
  /\ progress = NoProgress
  /\ legacy = NoLegacy
  /\ \E t \in Texts : classified = [NoText EXCEPT !.text = t]

\* The heuristics applied to the text.
classify ==
  /\ ~ classified.done
  /\ classified' = [classified EXCEPT
       !.done = TRUE,
       !.ssl = _is_ssl_related_error(Indicators(classified.text)),
       !.login = _is_vimeo_login_required_error(Indicators(classified.text))]
  /\ UNCHANGED << app, installer, reader, selection, progress, legacy >>

NextHeuristics == classify

SpecHeuristics == InitHeuristics /\ [][NextHeuristics]_vars

\* ---------------------------------------------------------- output tail
\* Lines of yt-dlp output read by one run_once.
MaxLines == 250

\* output_tail = deque(maxlen=200)
DequeMaxlen == 200

\* _format_recent_lines(lines, limit=30)
Limit == 30

\* The i-th line yt-dlp writes.
Line(i) == ToString(i)

\* An append that drops the new line when the deque is full.
deque_append_keep_first(dq, maxlen, line) ==
  IF Len(dq) < maxlen THEN Append(dq, line) ELSE dq

\* deque.append on a deque with maxlen: a full deque drops its oldest item.
deque_append(dq, maxlen, line) ==
  IF Len(dq) < maxlen THEN Append(dq, line) ELSE Append(Tail(dq), line)

\* "\n".join(tail), as the sequence of lines and separators.
join(tail) ==
  IF tail = << >> THEN << >>
  ELSE [i \in 1 .. (2 * Len(tail) - 1) |->
          IF i % 2 = 1 THEN tail[(i + 1) \div 2] ELSE "\n"]

\* _format_recent_lines without its limit.
_format_recent_lines_all(lines, limit) == join(lines)

\* _format_recent_lines on the lines themselves: list(lines)[-limit:] joined,
\* and "" for no lines.
_format_recent_lines_of(lines, limit) ==
  IF lines = << >> THEN << >>
  ELSE join(SubSeq(lines,
                   IF Len(lines) > limit THEN Len(lines) - limit + 1 ELSE 1,
                   Len(lines)))

\* The indicator substrings of a formatted text, when line number ssl_at of
\* the output (if any) is the one that reads "ssl: certificate_verify_failed"
\* and the other lines have no indicator.
text_indicators(text, ssl_at) ==
  IF ssl_at > 0 /\ \E i \in 1 .. Len(text) : text[i] = Line(ssl_at)
  THEN {"ssl:", "certificate_verify_failed"}
  ELSE {}

InitTail ==
  /\ machine \in Machines
  /\ InitApp
  /\ installer = NoInstaller
  /\ classified = NoText
  /\ \E at \in 0 .. MaxLines : reader = [NoReader EXCEPT !.ssl_at = at]
  /\ selection = NoSelection
  /\ progress = NoProgress
  /\ legacy = NoLegacy

\* for line in self.process.stdout: output_tail.append(line)
tail_append ==
  /\ ~ reader.done
  /\ reader.fed < MaxLines
  /\ reader' = [reader EXCEPT
       !.fed = @ + 1,
       !.output_tail = deque_append(@, DequeMaxlen, Line(reader.fed + 1))]
  /\ UNCHANGED << app, installer, classified, selection, progress, legacy >>

\* The output ends with exit code rc; lines 1278 and 1285 format the tail
\* for the retry decision and for the error box.
tail_format ==
  /\ ~ reader.done
  /\ \E rc \in {0, 1} :
       LET details == _format_recent_lines_of(reader.output_tail, Limit)
       IN  reader' = [reader EXCEPT
             !.done = TRUE,
             !.rc = rc,
             !.retry = rc # 0
                       /\ _is_ssl_related_error(text_indicators(details, reader.ssl_at)),
             !.details = details]
  /\ UNCHANGED << app, installer, classified, selection, progress, legacy >>

NextTail == tail_append \/ tail_format

SpecTail == InitTail /\ [][NextTail]_vars

\* ------------------------------------------------------ quality selection
\* Heights of the video formats yt-dlp reports.
Heights == {240, 360, 720, 1080}

\* A text the dropdown does not offer.
MissingOption == "4320p"

RECURSIVE SortedDescending(_)
\* sort(key=height, reverse=True)
SortedDescending(hs) ==
  IF hs = {} THEN << >>
  ELSE LET top == CHOOSE h \in hs : \A g \in hs : g <= h
       IN  << top >> \o SortedDescending(hs \ {top})

\* available_qualities as get_video_information builds it: one entry per
\* height, highest first, between "best" and "worst".
build_available_qualities(hs) ==
  LET sorted == SortedDescending(hs)
  IN  << [height |-> Best, label |-> "Best Quality"] >>
      \o [i \in 1 .. Len(sorted) |->
            [height |-> Height(sorted[i]), label |-> ToString(sorted[i]) \o "p"]]
      \o << [height |-> Worst, label |-> "Worst Quality"] >>

\* quality_options of create_quality_selection_ui.
build_quality_options(aq) ==
  (IF \E i \in 1 .. Len(aq) : aq[i].height = Best
   THEN << >> ELSE << "Best Quality" >>)
  \o [i \in 1 .. Len(aq) |-> aq[i].label]

\* quality_values of create_quality_selection_ui: a later entry with the
\* same label replaces an earlier one.
build_quality_values(aq) ==
  LET labels == {aq[i].label : i \in 1 .. Len(aq)}
      last(l) == CHOOSE i \in 1 .. Len(aq) :
                   /\ aq[i].label = l
                   /\ \A j \in 1 .. Len(aq) : aq[j].label = l => j <= i
  IN  [l \in labels \cup {"Best Quality"} |->
         IF l \in labels THEN aq[last(l)].height ELSE Best]

\* Every quality downloaded as "best".
format_selector_always_best(q) == "bestvideo+bestaudio/best"

\* The --format argument of run_once.
format_selector(q) ==
  IF q = Best THEN "bestvideo+bestaudio/best"
  ELSE IF q = Worst THEN "worstvideo+worstaudio/worst"
  ELSE "bestvideo[height<=" \o ToString(q.h) \o "]+bestaudio/best[height<="
       \o ToString(q.h) \o "]"

InitSelection ==
  /\ machine \in Machines
  /\ InitApp
  /\ installer = NoInstaller
  /\ classified = NoText
  /\ reader = NoReader
  /\ progress = NoProgress
  /\ legacy = NoLegacy
  /\ \E hs \in SUBSET Heights :
       selection = [NoSelection EXCEPT
         !.pc = "fetched",
         !.heights = hs,
         !.available_qualities = build_available_qualities(hs)]

\* create_quality_selection_ui: the dropdown shows its first option.
select_create_ui ==
  /\ selection.pc = "fetched"
  /\ LET opts == build_quality_options(selection.available_qualities)
     IN  selection' = [selection EXCEPT
           !.pc = "choosing",
           !.quality_options = opts,
           !.quality_values = build_quality_values(selection.available_qualities),
           !.quality_var = opts[1]]
  /\ UNCHANGED << app, installer, classified, reader, progress, legacy >>

\* The user picks an option of the dropdown, or quality_var gets a text the
\* dropdown does not have.
select_option ==
  /\ selection.pc = "choosing"
  /\ \E o \in {selection.quality_options[i] :
                 i \in 1 .. Len(selection.quality_options)} \cup {MissingOption} :
       selection' = [selection EXCEPT !.quality_var = o]
  /\ UNCHANGED << app, installer, classified, reader, progress, legacy >>

\* start_download, lines 1057-1075.
select_start_download ==
  /\ selection.pc = "choosing"
  /\ selection' = [selection EXCEPT
       !.pc = "started",
       !.selected_quality =
          IF selection.quality_var \in DOMAIN selection.quality_values
          THEN selection.quality_values[selection.quality_var]
          ELSE Best]
  /\ UNCHANGED << app, installer, classified, reader, progress, legacy >>

\* run_once builds the command line.
select_run_once ==
  /\ selection.pc = "started"
  /\ selection' = [selection EXCEPT
       !.pc = "built",
       !.format = format_selector(selection.selected_quality)]
  /\ UNCHANGED << app, installer, classified, reader, progress, legacy >>

NextSelection ==
  \/ select_create_ui
  \/ select_option
  \/ select_start_download
  \/ select_run_once

SpecSelection == InitSelection /\ [][NextSelection]_vars

\* ------------------------------------------------------- download progress
\* Lines of output one run_once reads.
MaxProgressLines == 3

\* Output lines, word by word.
ProgressLines ==
  { << "50.0%", "|", "1MiB/s", "|", "00:05" >>,
    << "10.0%", "|", "1MiB/s", "|", "00:09" >>,
    << "N/A", "|", "1MiB/s", "|", "00:05" >>,
    << "50.0%", "|", "1MiB/s" >>,
    << "[download]", "Destination:", "a.mp4" >>,
    << "[ffmpeg]", "Merging formats into", "a.mp4" >>,
    << "[Merger]", "|", "a", "|", "b" >>,
    << "Post-process" >> }

\* "[ffmpeg]" in line or "Merger" in line or "Post-process" in line
is_phase_marker(line) ==
  \E i \in 1 .. Len(line) : line[i] \in {"[ffmpeg]", "[Merger]", "Post-process"}

\* line.count('|')
count(line, sep) == Cardinality({i \in 1 .. Len(line) : line[i] = sep})

RECURSIVE split(_, _)
\* line.split('|')
split(line, sep) ==
  IF \A i \in 1 .. Len(line) : line[i] # sep THEN << line >>
  ELSE LET k == CHOOSE i \in 1 .. Len(line) :
                  line[i] = sep /\ \A j \in 1 .. (i - 1) : line[j] # sep
       IN  << SubSeq(line, 1, k - 1) >> \o split(SubSeq(line, k + 1, Len(line)), sep)

\* float(percent_str.strip('%')): -1 stands for ValueError.
parse_percent(percent_str) ==
  IF percent_str = << "50.0%" >> THEN 50
  ELSE IF percent_str = << "10.0%" >> THEN 10
  ELSE -1

\* The progress test without the in_download_phase condition.
is_progress_line_any_phase(phase, line) == count(line, "|") >= 2

\* elif in_download_phase and '|' in line and line.count('|') >= 2
is_progress_line(phase, line) ==
  phase /\ count(line, "|") >= 1 /\ count(line, "|") >= 2

\* The callbacks run_once queues for one line.
line_callbacks(phase, line) ==
  IF is_phase_marker(line)
  THEN IF phase
       THEN << [fn |-> "update_progress", arg |-> 100, text |-> ""],
               [fn |-> "update_status", arg |-> 0,
                text |-> "Processing video and audio streams..."],
               [fn |-> "config_indeterminate", arg |-> 0, text |-> ""],
               [fn |-> "start", arg |-> 0, text |-> ""] >>
       ELSE << >>
  ELSE IF is_progress_line(phase, line)
  THEN LET parts == split(line, "|")
       IN  IF Len(parts) >= 3
           THEN (IF parse_percent(parts[1]) >= 0
                 THEN << [fn |-> "update_progress",
                          arg |-> parse_percent(parts[1]), text |-> ""] >>
                 ELSE << >>)
                \o << [fn |-> "update_status", arg |-> 0, text |-> "Downloading"] >>
           ELSE << >>
  ELSE << >>

InitProgress ==
  /\ machine \in Machines
  /\ InitApp
  /\ installer = NoInstaller
  /\ classified = NoText
  /\ reader = NoReader
  /\ selection = NoSelection
  /\ legacy = NoLegacy
  /\ progress = [NoProgress EXCEPT !.pc = "reading"]

\* One turn of "for line in self.process.stdout".
progress_read_line ==
  /\ progress.pc = "reading"
  /\ progress.lines < MaxProgressLines
  /\ \E line \in ProgressLines :
       progress' = [progress EXCEPT
         !.lines = @ + 1,
         !.line = line,
         !.in_download_phase = @ /\ ~ is_phase_marker(line),
         !.after = @ \o line_callbacks(progress.in_download_phase, line)]
  /\ UNCHANGED << app, installer, classified, reader, selection, legacy >>

\* The output ends: progress_bar.stop() is queued.
progress_eof ==
  /\ progress.pc = "reading"
  /\ progress' = [progress EXCEPT
       !.pc = "eof",
       !.line = << >>,
       !.after = Append(@, [fn |-> "stop", arg |-> 0, text |-> ""])]
  /\ UNCHANGED << app, installer, classified, reader, selection, legacy >>

\* The event loop runs the oldest queued callback.
progress_mainloop ==
  /\ progress.after # << >>
  /\ LET cb == Head(progress.after)
     IN  progress' = [progress EXCEPT
           !.after = Tail(@),
           !.progress_var = IF cb.fn = "update_progress" THEN cb.arg ELSE @,
           !.status = IF cb.fn = "update_status" THEN cb.text ELSE @,
           !.mode = IF cb.fn = "config_indeterminate" THEN "indeterminate" ELSE @,
           !.running = IF cb.fn = "start" THEN TRUE
                       ELSE IF cb.fn = "stop" THEN FALSE ELSE @]
  /\ UNCHANGED << app, installer, classified, reader, selection, legacy >>

NextProgress == progress_read_line \/ progress_eof \/ progress_mainloop

SpecProgress == InitProgress /\ [][NextProgress]_vars

\* ------------------------------------------------------- vimeograb_gui.py
\* VimeoGrabGUI of vimeograb_gui.py: the foreground thread, the download
\* threads, their yt-dlp subprocesses and the root.after queue.
\*   screen                what main_frame shows
\*   download_in_progress  self.download_in_progress
\*   ui_state              self.ui_state
\*   has_ui                hasattr(self, 'progress_var') and
\*                         hasattr(self, 'status_label')
\*   process               self.process (0: None, else index into procs)
\*   fetching              a get_video_information thread is running
\*   workers               the download threads started so far
\*   cancelled             download threads alive when Cancel was pressed
\* Download threads started in one run.
MaxLegacyDownloads == 2

LegacyAlive(l, w) == l.workers[w].pc \in {"start", "reading", "wait"}

\* create_download_progress_ui, lines 564-619.
create_download_progress_ui(l) ==
  IF l.ui_state \in {"downloading", "processing"} /\ l.has_ui
  THEN l
  ELSE [l EXCEPT !.screen = "progress", !.has_ui = TRUE]

InitLegacy ==
  /\ machine \in Machines
  /\ InitApp
  /\ installer = NoInstaller
  /\ classified = NoText
  /\ reader = NoReader
  /\ selection = NoSelection
  /\ progress = NoProgress
  /\ legacy = [NoLegacy EXCEPT !.pc = "app"]

\* "Get Video Information", lines 188-208.  One get_video_information
\* thread at a time.
lg_process_url ==
  /\ legacy.screen = "url" /\ ~ legacy.fetching
  /\ \/ legacy' = [legacy EXCEPT !.dialog = "Invalid Vimeo URL"]
     \/ legacy' = [legacy EXCEPT !.screen = "loading", !.fetching = TRUE,
                                 !.dialog = "none"]
  /\ UNCHANGED << app, installer, classified, reader, selection, progress >>

\* get_video_information, lines 231-281: the thread queues the quality
\* screen, or an error box and the URL screen, and ends.
lg_get_video_information ==
  /\ legacy.fetching
  /\ \/ legacy' = [legacy EXCEPT
          !.fetching = FALSE,
          !.after = Append(@, [fn |-> "create_quality_selection_ui", worker |-> 0])]
     \/ legacy' = [legacy EXCEPT
          !.fetching = FALSE,
          !.after = @ \o << [fn |-> "showerror", worker |-> 0],
                            [fn |-> "create_url_entry_ui", worker |-> 0] >>]
  /\ UNCHANGED << app, installer, classified, reader, selection, progress >>

\* "Back" (line 413) and "Download Another Video" (line 899).
lg_create_url_entry_ui ==
  /\ legacy.screen \in {"quality", "complete"}
  /\ legacy' = [legacy EXCEPT !.screen = "url", !.dialog = "none"]
  /\ UNCHANGED << app, installer, classified, reader, selection, progress >>

\* "Download Video", lines 494-562.
lg_start_download ==
  /\ legacy.screen = "quality"
  /\ IF legacy.download_in_progress
     THEN legacy' = legacy
     ELSE \/ legacy' = [legacy EXCEPT !.dialog = "Invalid download directory."]
          \/ /\ Len(legacy.workers) < MaxLegacyDownloads
             /\ legacy' =
                  [create_download_progress_ui(
                     [legacy EXCEPT !.download_in_progress = TRUE,
                                    !.ui_state = "downloading",
                                    !.dialog = "none"])
                   EXCEPT !.workers = Append(@, [pc |-> "start", proc |-> 0,
                                                 in_download_phase |-> TRUE])]
  /\ UNCHANGED << app, installer, classified, reader, selection, progress >>

\* "Cancel", lines 843-856.
lg_cancel_download ==
  /\ legacy.screen = "progress"
  /\ LET p == legacy.process
         w == Len(legacy.workers)
     IN  legacy' = [legacy EXCEPT
           !.procs = IF p # 0 /\ @[p].state = "running"
                     THEN [@ EXCEPT ![p] = [state |-> "exited", rc |-> Killed]]
                     ELSE @,
           !.download_in_progress = FALSE,
           !.ui_state = "initial",
           !.dialog = "Download was cancelled",
           !.screen = "url",
           !.cancelled = IF w > 0 /\ LegacyAlive(legacy, w) THEN @ \cup {w} ELSE @]
  /\ UNCHANGED << app, installer, classified, reader, selection, progress >>

\* download_video, lines 621-690: the thread starts yt-dlp and stores it in
\* self.process, or an exception sends it to its except block.
lg_dv_start(w) ==
  /\ w \in DOMAIN legacy.workers /\ legacy.workers[w].pc = "start"
  /\ \/ legacy' = [legacy EXCEPT
          !.procs = Append(@, [state |-> "running", rc |-> -1]),
          !.process = Len(legacy.procs) + 1,
          !.workers[w].pc = "reading",
          !.workers[w].proc = Len(legacy.procs) + 1]
     \/ legacy' = [legacy EXCEPT
          !.workers[w].pc = "except",
          !.after = Append(@, [fn |-> "handle_exception_error", worker |-> w])]
  /\ UNCHANGED << app, installer, classified, reader, selection, progress >>

\* A running yt-dlp ends on its own.
lg_proc_exit(p) ==
  /\ p \in DOMAIN legacy.procs /\ legacy.procs[p].state = "running"
  /\ \E rc \in {0, 1} :
       legacy' = [legacy EXCEPT !.procs[p] = [state |-> "exited", rc |-> rc]]
  /\ UNCHANGED << app, installer, classified, reader, selection, progress >>

\* Lines 696-720: the first marker line read ends the transfer phase; the
\* thread writes self.ui_state.
lg_dv_marker(w) ==
  /\ w \in DOMAIN legacy.workers /\ legacy.workers[w].pc = "reading"
  /\ legacy.workers[w].in_download_phase
  /\ legacy' = [legacy EXCEPT
       !.workers[w].in_download_phase = FALSE,
       !.ui_state = "processing",
       !.after = Append(@, [fn |-> "update_processing_ui", worker |-> w])]
  /\ UNCHANGED << app, installer, classified, reader, selection, progress >>

\* Lines 776-796: self.process has ended; its return code decides the
\* callback the thread queues before it ends.
lg_dv_returned(l, w) ==
  [l EXCEPT
     !.workers[w].pc = "done",
     !.after = Append(@, [fn |-> IF l.procs[l.process].rc = 0
                                 THEN "show_completion_with_state_reset"
                                 ELSE "handle_download_error",
                          worker |-> w])]

\* Lines 692-776: the output of the thread's own subprocess ends; then
\* self.process.wait().
lg_dv_eof(w) ==
  /\ w \in DOMAIN legacy.workers /\ legacy.workers[w].pc = "reading"
  /\ legacy.procs[legacy.workers[w].proc].state = "exited"
  /\ legacy' = IF legacy.procs[legacy.process].state = "exited"
               THEN lg_dv_returned(legacy, w)
               ELSE [legacy EXCEPT !.workers[w].pc = "wait"]
  /\ UNCHANGED << app, installer, classified, reader, selection, progress >>

\* Line 776: self.process.wait() returns.
lg_dv_wait(w) ==
  /\ w \in DOMAIN legacy.workers /\ legacy.workers[w].pc = "wait"
  /\ legacy.procs[legacy.process].state = "exited"
  /\ legacy' = lg_dv_returned(legacy, w)
  /\ UNCHANGED << app, installer, classified, reader, selection, progress >>

\* The thread leaves its except block, which unbinds e, and ends.
lg_thread_exit(w) ==
  /\ w \in DOMAIN legacy.workers /\ legacy.workers[w].pc = "except"
  /\ legacy' = [legacy EXCEPT !.workers[w].pc = "done"]
  /\ UNCHANGED << app, installer, classified, reader, selection, progress >>

\* The event loop runs the oldest queued callback.  handle_exception_error
\* resets the flags and then reads e: once the thread has left its except
\* block that raises NameError, before the error box and the URL screen.
lg_mainloop ==
  /\ legacy.after # << >>
  /\ LET cb == Head(legacy.after)
         l == [legacy EXCEPT !.after = Tail(@)]
     IN  legacy' =
           CASE cb.fn = "create_quality_selection_ui" ->
                  [l EXCEPT !.screen = "quality"]
             [] cb.fn = "create_url_entry_ui" ->
                  [l EXCEPT !.screen = "url"]
             [] cb.fn = "showerror" ->
                  [l EXCEPT !.dialog = "Failed to get video information"]
             [] cb.fn = "update_processing_ui" -> l
             [] cb.fn = "show_completion_with_state_reset" ->
                  [l EXCEPT !.ui_state = "completed",
                            !.download_in_progress = FALSE,
                            !.screen = "complete"]
             [] cb.fn = "handle_download_error" ->
                  [l EXCEPT !.download_in_progress = FALSE,
                            !.ui_state = "initial",
                            !.dialog = "Failed to download the video",
                            !.screen = "url"]
             [] cb.fn = "handle_exception_error" ->
                  IF legacy.workers[cb.worker].pc = "except"
                  THEN [l EXCEPT !.download_in_progress = FALSE,
                                 !.ui_state = "initial",
                                 !.dialog = "Error during download",
                                 !.screen = "url"]
                  ELSE [l EXCEPT !.download_in_progress = FALSE,
                                 !.ui_state = "initial"]
  /\ UNCHANGED << app, installer, classified, reader, selection, progress >>

\* A step of a download thread or of a subprocess.
LegacyBackgroundStep ==
  \/ \E w \in 1 .. MaxLegacyDownloads :
       lg_dv_start(w) \/ lg_dv_eof(w) \/ lg_dv_wait(w) \/ lg_thread_exit(w)
  \/ \E p \in 1 .. MaxLegacyDownloads : lg_proc_exit(p)

NextLegacy ==
  \/ lg_process_url
  \/ lg_get_video_information
  \/ lg_create_url_entry_ui
  \/ lg_start_download
  \/ lg_cancel_download
  \/ lg_mainloop
  \/ \E w \in 1 .. MaxLegacyDownloads : lg_dv_start(w)
  \/ \E w \in 1 .. MaxLegacyDownloads : lg_dv_marker(w)
  \/ \E w \in 1 .. MaxLegacyDownloads : lg_dv_eof(w)
  \/ \E w \in 1 .. MaxLegacyDownloads : lg_dv_wait(w)
  \/ \E w \in 1 .. MaxLegacyDownloads : lg_thread_exit(w)
  \/ \E p \in 1 .. MaxLegacyDownloads : lg_proc_exit(p)

SpecLegacy == InitLegacy /\ [][NextLegacy]_vars

\* SpecLegacy with threads and subprocesses that make progress and an event
\* loop that runs its callbacks.
SpecLegacyLive ==
  SpecLegacy /\ WF_vars(LegacyBackgroundStep) /\ WF_vars(lg_mainloop)

\* ------------------------------------------------------------------ claims
Fetching(wr) == wr.kind = "fetch" /\ wr.invs # <<>>

\* The label of the candidate an argument fragment belongs to.
SourceOf(args) ==
  IF args[1] = "--cookies" THEN "cookies_file" ELSE "browser:" \o args[2]

\* The step adds an invocation to worker w's log.
Invoked(w) ==
  /\ workers'[w].invs # <<>>
  /\ workers'[w].invs # workers[w].invs

\* C2: the first invocation of a fetch has no auth and no transport
\* arguments; it is followed by a retry exactly when it exited non-zero with
\* SSL-matching output; the retry has the override and no auth, is the only
\* one, and ytdlp_transport_args becomes the override exactly when the retry
\* exits 0.
C2_FirstThenOneSslRetry ==
  [][\A w \in WorkerIds :
       LET a == workers[w]
           b == workers'[w]
       IN  (b.kind = "fetch" /\ Invoked(w) /\ b.invs[Len(b.invs)].auth = <<>>) =>
             \/ /\ a.invs = <<>> /\ Len(b.invs) = 1
                /\ b.invs[1].transport = <<>>
                /\ (b.pc = "ssl_retry") <=> (b.invs[1].rc # 0 /\ b.invs[1].ssl)
                /\ ytdlp_transport_args' = ytdlp_transport_args
             \/ /\ a.pc = "ssl_retry" /\ Len(b.invs) = 2
                /\ a.invs = << b.invs[1] >>
                /\ b.invs[1].rc # 0 /\ b.invs[1].ssl
                /\ b.invs[2].transport = NoCheck
                /\ b.pc # "ssl_retry"
                /\ (ytdlp_transport_args' = NoCheck) <=> (b.invs[2].rc = 0)
                /\ (b.invs[2].rc # 0) => (ytdlp_transport_args' = <<>>)
  ]_vars

\* C2 witness: a retry without auth exited 0 and the override is recorded.
C2_Witness ==
  \E w \in WorkerIds :
    /\ Fetching(workers[w]) /\ Len(workers[w].invs) = 2
    /\ workers[w].invs[2].auth = <<>> /\ workers[w].invs[2].rc = 0
    /\ ytdlp_transport_args = NoCheck

\* The fixed order of the authentication candidates.
Order == << "cookies_file", "browser:chrome", "browser:edge", "browser:firefox" >>

Rank(source) == CHOOSE i \in DOMAIN Order : Order[i] = source

\* The candidates this machine offers: the cookie file when it exists, and
\* the detected browsers (every browser when none was detected).
Offered ==
  { s \in {Order[i] : i \in DOMAIN Order} :
      \/ s = "cookies_file" /\ machine.cookie_file
      \/ \E b \in Browsers : s = "browser:" \o b
                              /\ (b \in machine.installed \/ machine.installed = {}) }

\* C3: a candidate is invoked only after login-required output, the cookie
\* file only if it exists, and only when every offered candidate before it
\* in the order cookies_file, chrome, edge, firefox was tried, in that
\* order, and failed.
C3_CandidatesInOrder ==
  \A w \in WorkerIds :
    LET wr == workers[w] IN
    (Fetching(wr) /\ wr.invs[1].auth # <<>>) =>
      LET cur == SourceOf(wr.invs[1].auth)
          before == SelectSeq(wr.tried, LAMBDA t : t.source # cur)
      IN  /\ wr.login_required
          /\ cur \in Offered
          /\ cur = "cookies_file" => machine.cookie_file
          /\ \A i \in DOMAIN before : before[i].rc # 0
          /\ \A i, j \in DOMAIN before :
               i < j => Rank(before[i].source) < Rank(before[j].source)
          /\ {before[i].source : i \in DOMAIN before}
               = {s \in Offered : Rank(s) < Rank(cur)}

\* C3 witness: firefox is invoked after the cookie file, chrome and edge.
C3_Witness ==
  \E w \in WorkerIds :
    /\ Fetching(workers[w])
    /\ workers[w].invs[1].auth = << "--cookies-from-browser", "firefox" >>
    /\ Len(SelectSeq(workers[w].tried, LAMBDA t : t.rc # 0)) >= 3

\* C4: when a candidate's invocation exits 0, ytdlp_auth_args and
\* ytdlp_auth_source become that candidate's arguments and label, and the
\* worker invokes nothing afterwards.
C4_StopAtFirstSuccess ==
  [][\A w \in WorkerIds :
       LET a == workers[w]
           b == workers'[w]
       IN  /\ (b.kind = "fetch" /\ Invoked(w) /\ b.invs[Len(b.invs)].auth # <<>>
               /\ b.invs[Len(b.invs)].rc = 0) =>
                 /\ ytdlp_auth_args' = b.invs[Len(b.invs)].auth
                 /\ ytdlp_auth_source' = SourceOf(b.invs[Len(b.invs)].auth)
                 /\ b.pc = "exit"
           /\ (Fetching(a) /\ \E i \in DOMAIN a.invs : a.invs[i].rc = 0) =>
                 b.invs \in {a.invs, <<>>}
  ]_vars

\* C4 witness: the cookie file and chrome failed, edge succeeded, and the
\* recorded source is browser:edge.
C4_Witness ==
  \E w \in WorkerIds :
    /\ Fetching(workers[w]) /\ workers[w].pc = "exit"
    /\ workers[w].tried = << [source |-> "cookies_file", rc |-> 1],
                             [source |-> "browser:chrome", rc |-> 1],
                             [source |-> "browser:edge", rc |-> 0] >>
    /\ ytdlp_auth_source = "browser:edge"
    /\ ytdlp_auth_args = << "--cookies-from-browser", "edge" >>

\* C5: a candidate's first invocation carries its auth arguments and the
\* override in ytdlp_transport_args; the candidate is retried exactly when
\* that invocation failed without override with SSL-matching output, once,
\* with the same auth arguments and the override; the override is stored in
\* ytdlp_transport_args exactly when that retry exits 0.
C5_CandidateRetry ==
  [][\A w \in WorkerIds :
       LET a == workers[w]
           b == workers'[w]
       IN  (b.kind = "fetch" /\ Invoked(w) /\ b.invs[Len(b.invs)].auth # <<>>) =>
             \/ /\ a.pc = "candidate" /\ Len(b.invs) = 1
                /\ b.invs[1].auth = a.cands[a.idx].args
                /\ b.invs[1].transport = ytdlp_transport_args
                /\ (b.pc = "candidate_retry")
                     <=> (b.invs[1].rc # 0 /\ b.invs[1].transport = <<>> /\ b.invs[1].ssl)
                /\ ytdlp_transport_args' = ytdlp_transport_args
             \/ /\ a.pc = "candidate_retry" /\ Len(b.invs) = 2
                /\ a.invs = << b.invs[1] >>
                /\ b.invs[2].auth = b.invs[1].auth
                /\ b.invs[2].transport = NoCheck
                /\ b.pc # "candidate_retry"
                /\ (ytdlp_transport_args' = NoCheck) <=> (b.invs[2].rc = 0)
                /\ (b.invs[2].rc # 0) => (ytdlp_transport_args' = ytdlp_transport_args)
  ]_vars

\* C5 witness: a candidate was retried with the override, the retry exited
\* 0 and the override is stored.
C5_Witness ==
  \E w \in WorkerIds :
    /\ Fetching(workers[w]) /\ Len(workers[w].invs) = 2
    /\ workers[w].invs[2].auth # <<>> /\ workers[w].invs[2].rc = 0
    /\ workers[w].invs[1].transport = <<>>
    /\ ytdlp_transport_args = NoCheck

\* Download workers and the subprocess an invocation of theirs ran in.
Downloading(wr) == wr.kind = "download" /\ wr.invs # <<>>

OwnRc(inv) == procs[inv.proc].rc

\* C1: every invocation of a download carries the auth and transport
\* arguments of the fetch invocation that exited 0 for the quality screen the
\* download was started from.
C1_DownloadReusesFetchArgs ==
  \A w \in WorkerIds :
    Downloading(workers[w]) =>
      \A i \in DOMAIN workers[w].invs :
        /\ workers[w].invs[i].auth = workers[w].expect[1]
        /\ workers[w].invs[i].transport = workers[w].expect[2]

\* C6: a download invokes the tool a second time exactly when its first
\* invocation exited non-zero with an SSL-matching tail; the second adds the
\* override; there is no third; the result reported is success exactly when
\* its last invocation exited 0.
C6_DownloadRetriesOnceOnSsl ==
  \A w \in WorkerIds :
    LET wr == workers[w] IN
    Downloading(wr) =>
      /\ Len(wr.invs) <= 2
      /\ Len(wr.invs) = 2 =>
           /\ OwnRc(wr.invs[1]) # 0 /\ wr.invs[1].ssl
           /\ wr.invs[2].extra = NoCheck
           /\ wr.invs[2].auth = wr.invs[1].auth
      /\ (wr.pc = "exit" /\ Len(wr.invs) = 1) =>
           ~ (OwnRc(wr.invs[1]) # 0 /\ wr.invs[1].ssl)
      /\ wr.pc = "exit" =>
           (wr.outcome = "success" <=> OwnRc(wr.invs[Len(wr.invs)]) = 0)

\* The callbacks that present a download as failed.
IsDownloadFailure(cb) ==
  \/ cb.fn = "showerror" /\ cb.msg = "Failed to download the video"
  \/ cb.fn = "showerror_exc" /\ cb.msg = "Error during download: e"

\* C7: no failure message of a download the user cancelled in flight is
\* queued by its worker.
C7_CancelledNeverFails ==
  \A i \in DOMAIN afterQueue :
    IsDownloadFailure(afterQueue[i]) => afterQueue[i].worker \notin cancelled

\* C8: at most one worker thread is alive.
C8_AtMostOneWorker ==
  Cardinality({w \in WorkerIds : Alive(w)}) <= 1

\* C9: start_download starts a worker only when no download worker is alive
\* and no download subprocess is running.
C9_NoSecondDownload ==
  [][download_thread' # download_thread =>
       /\ \A w \in WorkerIds : ~ (workers[w].kind = "download" /\ Alive(w))
       /\ \A p \in DOMAIN procs : procs[p].state # "running"
  ]_vars

\* C10: the fields of self change only in steps of the foreground thread,
\* that is, in steps in which no started worker moves.
C10_WorkersNeverWriteFields ==
  [][<< ytdlp_auth_args, ytdlp_transport_args, ytdlp_auth_source,
        available_qualities, process >>'
       # << ytdlp_auth_args, ytdlp_transport_args, ytdlp_auth_source,
            available_qualities, process >>
     => \A w \in WorkerIds :
          workers[w].kind # "none" => workers'[w] = workers[w]
  ]_vars

\* C11: once the user has cancelled a download, no subprocess started by
\* that download's worker is running.
C11_NoSubprocessAfterCancel ==
  \A p \in DOMAIN procs :
    procs[p].owner \in cancelled => procs[p].state # "running"

\* C12: a check of the cancel flag that finds it set ends the loop there:
\* the poll loop asks the subprocess to terminate, the read loop reads and
\* writes no chunk, "cancelled" is raised, the worker ends at once and no
\* failure is queued or shown for that run.
C12_CancelStopsLoops ==
  [][(installer.cancel_event /\ installer'.pc # installer.pc
        /\ \/ installer.pc = "read"
           \/ installer.pc = "poll" /\ installer.ps = "running") =>
       /\ installer'.raised = "cancelled"
       /\ installer'.pc = "done"
       /\ installer'.fail_ui = "none"
       /\ installer'.written = installer.written
       /\ installer'.chunks = installer.chunks
       /\ installer.pc = "poll" => installer'.ps = "terminated"
       /\ installer.pc = "read" => installer'.ps = installer.ps
  ]_vars

\* C12 witness: the flag was set before the poll loop's first check; the
\* subprocess was terminated and the worker ended with "cancelled".
C12_Witness ==
  /\ installer.stopped_at = "poll" /\ installer.ps = "terminated"
  /\ installer.raised = "cancelled" /\ installer.fail_ui = "none"

\* C13: when a fetch ends in failure the error queued for the user carries
\* the output of the failing invocation, the login explanation exactly when
\* the login heuristic matched (authentication candidates were tried), and
\* the Chrome hint whenever the failing invocation read Chrome's cookies and
\* its output matches the cookie-copy heuristic.
C13_CompositeDiagnostic ==
  [][\A w \in WorkerIds :
       LET a == workers[w]
           b == workers'[w]
           cb == afterQueue'[Len(afterQueue') - 1]
       IN  (a.kind = "fetch" /\ a.pc # "exit" /\ b.pc = "exit" /\ b.outcome = "failed") =>
             /\ Len(afterQueue') = Len(afterQueue) + 2
             /\ cb.fn = "showerror" /\ cb.worker = w
             /\ cb.msg = "Failed to get video information"
             /\ afterQueue'[Len(afterQueue')].fn = "create_url_entry_ui"
             /\ cb.out = b.result.out
             /\ cb.login <=> (b.tried # <<>> \/ _is_vimeo_login_required_error(b.result.out))
             /\ (/\ b.invs[Len(b.invs)].auth = << "--cookies-from-browser", "chrome" >>
                 /\ _is_chrome_cookie_copy_error(b.result.out)) => cb.chrome
  ]_vars

\* The event loop runs the callback at the head of the queue.
Runs(fns) ==
  /\ afterQueue # <<>>
  /\ afterQueue' = Tail(afterQueue)
  /\ Head(afterQueue).fn \in fns

\* Worker w queues its last callbacks in this step.
Concludes(w) ==
  /\ workers[w].pc \notin {"idle", "exit", "except", "done"}
  /\ workers'[w].pc \in {"exit", "except"}

\* C14: a worker that concludes queues either its success screen alone or
\* one error box followed by the return to the URL screen, and the error box
\* of a worker that was not cancelled is shown when the event loop runs it.
C14_OneTerminalOutcome ==
  [][/\ \A w \in WorkerIds :
          Concludes(w) =>
            LET posts == SubSeq(afterQueue', Len(afterQueue) + 1, Len(afterQueue'))
            IN  \/ /\ Len(posts) = 1
                   /\ posts[1].fn \in {"create_quality_selection_ui", "show_completion"}
                   /\ posts[1].worker = w
                \/ /\ Len(posts) = 2
                   /\ posts[1].fn \in {"showerror", "showerror_exc"}
                   /\ posts[2].fn = "create_url_entry_ui"
                   /\ posts[1].worker = w /\ posts[2].worker = w
     /\ (Runs({"showerror", "showerror_exc"})
           /\ Head(afterQueue).worker \notin cancelled) =>
          /\ dialog'.msg = Head(afterQueue).msg
          /\ dialog'.worker = Head(afterQueue).worker
  ]_vars

\* C15: a worker whose call raised invokes nothing more, and when the event
\* loop runs the error callback the worker queued, the box with the error
\* text is shown.
C15_LaunchErrorShown ==
  [][/\ \A w \in WorkerIds :
          workers[w].pc = "except" =>
            /\ workers'[w].pc \in {"except", "done"}
            /\ workers'[w].invs = <<>>
     /\ Runs({"showerror_exc"}) =>
          dialog' = MessageBox(Head(afterQueue).msg, Head(afterQueue).worker)
  ]_vars

\* C16: a first invocation that exits non-zero with output matching neither
\* the SSL nor the login heuristic is the only invocation of the fetch, and
\* the error queued carries that invocation's output.
C16_UnclassifiedNoRetry ==
  [][\A w \in WorkerIds :
       LET a == workers[w]
           b == workers'[w]
       IN  /\ (/\ a.kind = "fetch" /\ a.pc = "first" /\ Len(b.invs) = 1
               /\ b.invs[1].rc # 0
               /\ ~ _is_ssl_related_error(b.result.out)
               /\ ~ _is_vimeo_login_required_error(b.result.out)) =>
                 /\ b.pc = "exit" /\ b.outcome = "failed"
                 /\ afterQueue' = afterQueue \o
                      << Callback("showerror", w, "Failed to get video information",
                                  FALSE, FALSE, b.result.out),
                         Plain("create_url_entry_ui", w) >>
           /\ (a.kind = "fetch" /\ a.pc = "exit") => b.invs \in {a.invs, <<>>}
  ]_vars

\* C16 witness: a fetch failed after a single invocation whose output is
\* not empty and matches neither heuristic, and that output is in the error
\* queued.
C16_Witness ==
  \E w \in WorkerIds :
    /\ workers[w].kind = "fetch" /\ workers[w].pc = "exit"
    /\ Len(workers[w].invs) = 1 /\ workers[w].outcome = "failed"
    /\ workers[w].result.out = {"could not copy chrome cookie database"}
    /\ \E i \in DOMAIN afterQueue :
         /\ afterQueue[i].fn = "showerror" /\ afterQueue[i].worker = w
         /\ afterQueue[i].out = workers[w].result.out

\* C17: a download worker queues the completion screen, which presents the
\* downloaded file, only if the last subprocess it ran exited 0; otherwise it
\* queues an error and the return to the URL screen.
C17_FileOnlyOnSuccess ==
  [][\A w \in WorkerIds :
       LET b == workers'[w]
           posts == SubSeq(afterQueue', Len(afterQueue) + 1, Len(afterQueue'))
       IN  (Concludes(w) /\ b.kind = "download" /\ b.pc = "exit") =>
             IF procs'[b.invs[Len(b.invs)].proc].rc = 0
             THEN posts = << Plain("show_completion", w) >>
             ELSE /\ Len(posts) = 2
                  /\ posts[1].fn = "showerror"
                  /\ posts[2].fn = "create_url_entry_ui"
  ]_vars

\* Same letter, whatever the case.
SameLetter(c, d) ==
  \/ c = d
  \/ c \in DOMAIN ToLower /\ ToLower[c] = d
  \/ d \in DOMAIN ToLower /\ ToLower[d] = c

\* The text contains the word in some mix of upper and lower case.
ContainsAnyCase(text, word) ==
  \E i \in 0 .. (Len(text) - Len(word)) :
    \A j \in 1 .. Len(word) : SameLetter(text[i + j], word[j])

\* C18: a text that contains CERTIFICATE_VERIFY_FAILED in any mix of case
\* is SSL-related.
C18_CertificateVerifyFailedAnyCase ==
  (classified.done
     /\ ContainsAnyCase(classified.text, Chars["certificate_verify_failed"]))
    => classified.ssl

\* C18 witness: a classified text that has the phrase with letters of both
\* cases in it.
C18_Witness ==
  /\ classified.done /\ classified.ssl
  /\ ContainsAnyCase(classified.text, Chars["certificate_verify_failed"])
  /\ ~ Contains(classified.text, Chars["certificate_verify_failed"])
  /\ ~ Contains(classified.text,
                Cased(Chars["certificate_verify_failed"], 1 .. 25))

\* C19: a text with both "login" and "vimeo", each in any case, requires
\* login; a text with only one of them and no other login indicator does
\* not.
C19_LoginAndVimeoAnyCase ==
  classified.done =>
    LET l == ContainsAnyCase(classified.text, Chars["login"])
        v == ContainsAnyCase(classified.text, Chars["vimeo"])
        o == \E k \in {"only works when logged-in", "provide account credentials",
                        "use --cookies", "use --cookies-from-browser"} :
               ContainsAnyCase(classified.text, Chars[k])
    IN  /\ (l /\ v) => classified.login
        /\ ((l # v) /\ ~ o) => ~ classified.login

\* C19 witness: "vimeo" before "login", neither in lower case, found to
\* require login.
C19_Witness ==
  /\ classified.done /\ classified.login
  /\ Contains(classified.text,
              << "V", "i", "M", "e", "O", " ", "t", "o", " ",
                 "L", "O", "g", "I", "n" >>)

\* The final min(n, cap) of the first n lines written, in the order written.
FinalLines(n, cap) ==
  LET k == IF n < cap THEN n ELSE cap IN [i \in 1 .. k |-> Line(n - k + i)]

\* The lines of a joined text: what stands between the separators.
SplitLines(text) == [i \in 1 .. ((Len(text) + 1) \div 2) |-> text[2 * i - 1]]

\* C20: the deque holds the final min(length, 200) lines read, in order,
\* and the formatted tail the final min(length, 30) of them, in order.
C20_TailKeepsLastLines ==
  /\ reader.output_tail = FinalLines(reader.fed, 200)
  /\ reader.done =>
       /\ SplitLines(reader.details) = FinalLines(reader.fed, 30)
       /\ \A i \in 1 .. Len(reader.details) :
            (reader.details[i] = "\n") <=> (i % 2 = 0)

\* C20 witness: 250 lines read, lines 51..250 kept and 221..250 formatted.
C20_Witness ==
  /\ reader.done
  /\ reader.fed = 250
  /\ reader.output_tail = [i \in 1 .. 200 |-> ToString(i + 50)]
  /\ SplitLines(reader.details) = [i \in 1 .. 30 |-> ToString(i + 220)]

\* C21: the --format argument is the "best" selector for Best Quality, the
\* "worst" selector for Worst Quality, the height-limited selector for a
\* height, and the "best" selector for an option the mapping does not have.
C21_FormatSelector ==
  selection.pc = "built" =>
    /\ selection.quality_var = "Best Quality"
         => selection.format = "bestvideo+bestaudio/best"
    /\ selection.quality_var = "Worst Quality"
         => selection.format = "worstvideo+worstaudio/worst"
    /\ selection.quality_var = "240p"
         => selection.format = "bestvideo[height<=240]+bestaudio/best[height<=240]"
    /\ selection.quality_var = "360p"
         => selection.format = "bestvideo[height<=360]+bestaudio/best[height<=360]"
    /\ selection.quality_var = "720p"
         => selection.format = "bestvideo[height<=720]+bestaudio/best[height<=720]"
    /\ selection.quality_var = "1080p"
         => selection.format = "bestvideo[height<=1080]+bestaudio/best[height<=1080]"
    /\ selection.quality_var = MissingOption
         => selection.format = "bestvideo+bestaudio/best"

\* C21 witness: 720p chosen among several heights and passed as a height
\* limit.
C21_Witness ==
  /\ selection.pc = "built"
  /\ selection.heights = {360, 720, 1080}
  /\ selection.quality_var = "720p"
  /\ selection.format = "bestvideo[height<=720]+bestaudio/best[height<=720]"

\* A line with at least two "|" among its words.
HasTwoSeparators(line) ==
  \E i, j \in 1 .. Len(line) : i < j /\ line[i] = "|" /\ line[j] = "|"

\* The callbacks queued in this step.
Queued ==
  IF Len(progress'.after) > Len(progress.after)
  THEN SubSeq(progress'.after, Len(progress.after) + 1, Len(progress'.after))
  ELSE << >>

\* C22: a line queues a percent or speed/ETA update only in the transfer
\* phase; a marker line ends the transfer phase for good and makes the bar
\* indeterminate at 100; once the bar is indeterminate its value stays.
C22_ProgressOnlyInTransfer ==
  [][/\ (progress'.lines = progress.lines + 1) =>
          /\ (\E i \in 1 .. Len(Queued) : Queued[i].text = "Downloading")
               => (progress.in_download_phase /\ HasTwoSeparators(progress'.line))
          /\ (progress.in_download_phase /\ ~ progress'.in_download_phase)
               => /\ Len(Queued) = 4
                  /\ Queued[1] = [fn |-> "update_progress", arg |-> 100, text |-> ""]
                  /\ Queued[3].fn = "config_indeterminate"
          /\ ~ progress.in_download_phase => Queued = << >>
     /\ ~ progress.in_download_phase => ~ progress'.in_download_phase
     /\ progress.mode = "indeterminate" =>
          /\ progress'.mode = "indeterminate"
          /\ progress.progress_var = 100
          /\ progress'.progress_var = 100
    ]_vars

\* C22 witness: a progress line arrived after the marker line and the bar,
\* indeterminate, still shows 100.
C22_Witness ==
  /\ ~ progress.in_download_phase
  /\ HasTwoSeparators(progress.line)
  /\ ~ (\E i \in 1 .. Len(progress.line) : progress.line[i] = "[Merger]")
  /\ progress.after = << >>
  /\ progress.mode = "indeterminate"
  /\ progress.progress_var = 100

\* C23: the candidates of a fetch are the cookie file when it exists, then
\* the browsers detected on this machine in the order chrome, edge,
\* firefox, and no other browser is tried.
C23_OnlyDetectedBrowsers ==
  \A w \in WorkerIds :
    LET wr == workers[w] IN
    wr.kind = "fetch" =>
      /\ \A i \in DOMAIN wr.cands :
           /\ wr.cands[i].source = "cookies_file" => machine.cookie_file
           /\ \A b \in Browsers :
                wr.cands[i].source = "browser:" \o b => b \in machine.installed
      /\ \A i \in DOMAIN wr.tried :
           \A b \in Browsers :
             wr.tried[i].source = "browser:" \o b => b \in machine.installed

\* C24: a text is SSL-related exactly when it contains, in any case,
\* "certificate_verify_failed", "unable to get local issuer certificate",
\* both "tls" and "handshake", or "ssl:".
C24_SslIndicatorsExactly ==
  classified.done =>
    (classified.ssl <=>
       \/ ContainsAnyCase(classified.text, Chars["certificate_verify_failed"])
       \/ ContainsAnyCase(classified.text,
                          Chars["unable to get local issuer certificate"])
       \/ /\ ContainsAnyCase(classified.text, Chars["tls"])
          /\ ContainsAnyCase(classified.text, Chars["handshake"])
       \/ ContainsAnyCase(classified.text, Chars["ssl:"]))

\* C25: in a fetch, ytdlp_transport_args becomes the override only with an
\* invocation that carried it and exited 0, ytdlp_auth_args and
\* ytdlp_auth_source are set together and only with an invocation that had
\* those auth arguments and exited 0, the three are reset when the fetch
\* starts, and the three are empty when the fetch ends in failure.
C25_RecordedOnlyOnSuccess ==
  [][\A w \in WorkerIds :
       LET a == workers[w]
           b == workers'[w]
           last == b.invs[Len(b.invs)]
       IN  (a.kind = "fetch" /\ a # b) =>
             /\ (a.pc = "start") =>
                  /\ ytdlp_auth_args' = <<>>
                  /\ ytdlp_transport_args' = <<>>
                  /\ ytdlp_auth_source' = ""
             /\ (ytdlp_auth_args' = <<>>) <=> (ytdlp_auth_source' = "")
             /\ (a.pc # "start" /\ b.invs # <<>>
                   /\ ytdlp_transport_args' # ytdlp_transport_args) =>
                  /\ ytdlp_transport_args' = NoCheck
                  /\ last.transport = NoCheck /\ last.rc = 0
             /\ (a.pc # "start" /\ b.invs # <<>>
                   /\ ytdlp_auth_args' # ytdlp_auth_args) =>
                  /\ last.auth = ytdlp_auth_args' /\ last.rc = 0
                  /\ ytdlp_auth_source' = SourceOf(last.auth)
             /\ (b.pc \in {"exit", "except"}
                   /\ b.outcome \in {"failed", "exception"}) =>
                  /\ ytdlp_auth_args' = <<>>
                  /\ ytdlp_transport_args' = <<>>
                  /\ ytdlp_auth_source' = ""
  ]_vars

\* C26: a fetch makes at most two invocations without authentication and at
\* most two for each candidate, tries each of the n <= 4 offered candidates
\* at most once (2 + 2n invocations at most), and its worker always reaches
\* its end.
C26_FetchTerminates ==
  /\ [](\A w \in WorkerIds :
          LET wr == workers[w]
              TriedSources(r) == {r.tried[i].source : i \in DOMAIN r.tried}
          IN
          Fetching(wr) =>
            /\ Len(wr.invs) <= 2
            /\ \A i, j \in DOMAIN wr.invs : wr.invs[i].auth = wr.invs[j].auth
            /\ \A i, j \in DOMAIN wr.tried :
                 i # j => wr.tried[i].source # wr.tried[j].source
            /\ TriedSources(wr) \subseteq Offered
            /\ Cardinality(Offered) <= 4
            /\ (wr.invs[1].auth # <<>>) =>
                 Cardinality(TriedSources(wr) \cup {SourceOf(wr.invs[1].auth)})
                   <= Cardinality(Offered))
  /\ <>[](\A w \in WorkerIds :
            workers[w].kind = "fetch" => workers[w].pc = "done")

\* C26 witness: four candidates were offered and each was invoked twice
\* before the fetch failed.
C26_Witness ==
  \E w \in WorkerIds :
    LET wr == workers[w] IN
    /\ Fetching(wr) /\ wr.pc = "exit" /\ wr.outcome = "failed"
    /\ Len(wr.tried) = 4
    /\ Len(wr.invs) = 2

\* C27: the retry is decided, and the diagnostic made, from the last 30
\* lines read at most: the download is retried exactly when it exited
\* non-zero and the SSL line is among the last 30 lines read.
C27_RetryFromLastThirtyLines ==
  reader.done =>
    LET recent == reader.ssl_at > 0 /\ reader.ssl_at <= reader.fed
                  /\ reader.ssl_at > reader.fed - 30
    IN  /\ reader.retry <=> (reader.rc # 0 /\ recent)
        /\ Len(SplitLines(reader.details)) <= 30
        /\ (\E i \in 1 .. Len(reader.details) :
              reader.details[i] = ToString(reader.ssl_at)) <=> recent

\* C27 witness: the SSL line is still in the deque but older than the last
\* 30 lines, the download failed and is not retried.
C27_Witness ==
  /\ reader.done /\ reader.rc # 0 /\ ~ reader.retry
  /\ reader.fed = 250
  /\ reader.ssl_at = 100
  /\ \E i \in 1 .. Len(reader.output_tail) : reader.output_tail[i] = "100"

\* C28: a callback of a download the user cancelled in flight never shows
\* the completion screen and never changes the screen shown.
C28_CancelledNeverChangesScreen ==
  [][(/\ Runs({"show_completion", "showerror", "showerror_exc", "create_url_entry_ui"})
      /\ Head(afterQueue).worker \in cancelled) =>
       /\ screen' # "complete"
       /\ screen' = screen
  ]_vars

\* C29: a start_download that launches a thread shows the progress screen,
\* and while download_in_progress is set and a download thread runs, the
\* progress screen is the one shown.
C29_ProgressScreenShown ==
  /\ [][Len(legacy'.workers) > Len(legacy.workers) => legacy'.screen = "progress"]_vars
  /\ []((/\ legacy.download_in_progress
         /\ \E w \in DOMAIN legacy.workers : LegacyAlive(legacy, w))
          => legacy.screen = "progress")

\* C30: download_in_progress, once set, is eventually reset, and a callback
\* of a cancelled download thread changes neither download_in_progress nor
\* ui_state while a newer download is in flight.
C30_FlagResetAndNoStaleReset ==
  /\ [](legacy.download_in_progress => <>(~ legacy.download_in_progress))
  /\ [][(/\ legacy.after # << >>
         /\ legacy'.after = Tail(legacy.after)
         /\ Head(legacy.after).worker \in legacy.cancelled
         /\ legacy.download_in_progress
         /\ \E n \in DOMAIN legacy.workers :
              n > Head(legacy.after).worker /\ LegacyAlive(legacy, n)) =>
          /\ legacy'.download_in_progress = legacy.download_in_progress
          /\ legacy'.ui_state = legacy.ui_state
      ]_vars

====
